---- MODULE Spec2Model ----
(***************************************************************************)
(* A model of the trial engines of the reaction-time mini-games.           *)
(*                                                                         *)
(* Part I   the go/no-go games: ColorReactionGame (src/unnamed/part_001,   *)
(*          variant "color") and ColorReactionGameEdges                    *)
(*          (src/SaccadicGame.jsx, variant "edges").                       *)
(*                                                                         *)
(* How the React components are read.  A component is a function that is   *)
(* run again after every state change ("render"); const [x, setX] =        *)
(* useState(..) gives the render its own constant x, and every function    *)
(* defined in a render (a handler, a setTimeout callback) sees the x of    *)
(* the render that created it for as long as it lives.  useRef values      *)
(* (xRef.current) are shared by all renders.  The model therefore keeps    *)
(*   - one variable per useState cell and per useRef cell, and             *)
(*   - for every pending timer the values of the useState cells that its   *)
(*     callback captured when it was created.                              *)
(* One step of the model is one handler call or one timer callback,        *)
(* together with the state updaters it enqueues and the render that        *)
(* follows: the handlers start, stop and onCellClick that the next step    *)
(* calls are those of the latest render.  The handlers are the engine's    *)
(* interface: each may be called in every state (the view shows the Start  *)
(* button only while not running and the Stop button only while running;   *)
(* the handlers themselves do not test this).                              *)
(* Time is abstracted: a pending timer may fire at any moment, and the     *)
(* elapsed time of a click since the stimulus onset is an input.           *)
(*                                                                         *)
(* Part II  the span tasks: SpamperceptionBlocks                           *)
(*          (src/SpamperceptionBlocks.jsx, task "blocks") and              *)
(*          CentralPeripheralSpanTask                                      *)
(*          (src/Central-PeripheralSpanTask.jsx, task "cp"), read the same *)
(*          way.  The callbacks of one presentation fire in the order of   *)
(*          their delays; timers of different setTimeout groups fire in    *)
(*          any order.                                                     *)
(*                                                                         *)
(* Part III the report of FiveTargetReactionGame                           *)
(*          (src/FiveTargetReactionGame.jsx).                              *)
(***************************************************************************)
EXTENDS Integers, Sequences, FiniteSets, Bags, TLC

VARIABLES
  variant,           \* which go/no-go component: "color" | "edges"
  running,           \* useState(false)
  stimuli,           \* useState([]): sequence of [id, idx, color]
  totalShown,        \* totalShownRef
  hits,              \* hitsRef
  errors,            \* errorsRef
  misses,            \* missesRef
  reactionList,      \* reactionListRef
  adaptHistory,      \* adaptHistoryRef
  reactionWindowMs,  \* reactionWindowMsRef
  spawnTimers,       \* pending queueSpawn timers: bag of captured [run, len]
  expiryTimers,      \* pending display timers: set of stimulus ids
  nextId,            \* number of stimulus ids handed out so far
  emitted,           \* the events passed to emitEvent by the latest step
  score,             \* the reports passed to emitScore since the latest start()
  outcomes,          \* history: bag of the stimulus ids an outcome was recorded for
  clicksScored,      \* history: clicks scored while running, this session
  greenExpired,      \* history: green stimuli whose display timer expired, this session
  \* Part II
  task,              \* which span component: "blocks" | "cp"
  spRunning,         \* running (useState(false))
  phase,             \* useState("idle")
  blockIdx,          \* useState(0)
  trialIdx,          \* useState(0)
  litIdx,            \* litIdx / lit (useState(null)): a cell or NoCell
  seq,               \* useState([])
  seqLen,            \* useState(START_LEN)
  replayPos,         \* useState(0)
  presentTimers,     \* presentTimersRef / timersRef: the pending presentations
  looseTimers,       \* pending setTimeout callbacks that no ref keeps
  stats,             \* statsRef (blocks) / spanMaxRef (cp), per block
  statsReady,        \* blocks: statsRef.current has its entries
  trialLog,          \* trialLogRef (blocks) / logsRef (cp)
  spEmitted,         \* the events passed to emitEvent by the latest step
  spScore,           \* the reports passed to emitScore since the latest start()
  finished,          \* the arguments of the finishTrial calls of the latest step
  responses,         \* history: the clicks taken in the respond phase of the trial
  stopPhase,         \* history: the phase at the latest stop() since start()
  spStarts,          \* history: the number of start() calls
  lenTrace,          \* history (SpecLen): the sequence lengths of a block
  okTrace,           \* history (SpecLen): the outcomes of its trials
  \* Part III
  ftRunning,         \* FiveTargetReactionGame: running (useState(false))
  ftHits,            \* hitsRef
  ftErrors,          \* errorsRef
  ftScore,           \* the reports passed to emitScore
  ftGame,            \* SpecFiveGame: the rest of FiveTargetReactionGame's state
  built,             \* SpecReport: the values returned by buildReport() calls
  gen,               \* SpecGen: a call of randSeq / randUniqueSeq in progress
  wait               \* SpecWait: the state of CentralPeripheralWaitGame

gngVars == <<variant, running, stimuli, totalShown, hits, errors, misses,
             reactionList, adaptHistory, reactionWindowMs, spawnTimers,
             expiryTimers, nextId, emitted, score, outcomes,
             clicksScored, greenExpired>>

spanVars == <<task, spRunning, phase, blockIdx, trialIdx, litIdx, seq, seqLen,
              replayPos, presentTimers, looseTimers, stats, statsReady,
              trialLog, spEmitted, spScore, finished, responses, stopPhase, spStarts,
              lenTrace, okTrace>>

fiveVars == <<ftRunning, ftHits, ftErrors, ftScore, ftGame>>

\* FiveTargetReactionGame as constructed (useState / useRef initial values)
\* stimuli = useState([]): the cells of the displayed set, those already
\* clicked, and the colour of the set.
NoSet == [cells |-> {}, clicked |-> {}, color |-> "none"]

\* The values a spawnSet closure holds: running and currentColorIdx of the
\* render that created it.
SpawnSetOf(r, c) == [running |-> r, colorIdx |-> c]

\* The state of FiveTargetReactionGame besides running, hitsRef and errorsRef,
\* as constructed: stimuli, currentColorIdx, the refs, the pending
\* setTimeout(spawnSet, 300) callbacks, the spawnSet that start() calls, the
\* colours of the SET_START events since the latest START, and the number of
\* start() calls.
FiveGameMounted ==
  [stimuli |-> NoSet, currentColorIdx |-> 0, currentSet |-> 0,
   clickedCount |-> 0, totalShown |-> 0, timers |-> EmptyBag,
   startSpawn |-> SpawnSetOf(FALSE, 0), setStarts |-> <<>>, starts |-> 0]

FiveMounted ==
  /\ ftRunning = FALSE
  /\ ftHits = 0
  /\ ftErrors = 0
  /\ ftScore = <<>>
  /\ ftGame = FiveGameMounted

\* No sequence generator has been called.
GenMounted ==
  gen = [status |-> "idle", region |-> "all", len |-> 0, step |-> 1, pos |-> 0,
         seq |-> <<>>, used |-> {}]

\* peripheralStim = useState(null), centralStim = useState(null)
NoStim == [quadrant |-> "none", idx |-> -1]

\* CentralPeripheralWaitGame as constructed (useState / useRef initial values);
\* periphTimers and nextTimers are its pending setTimeout callbacks, score the
\* reports passed to emitScore, emitted the events of the latest step.
WaitMounted ==
  wait = [running |-> FALSE, centralStim |-> "null", peripheralStim |-> NoStim,
          trialCount |-> 0, hits |-> 0, errors |-> 0, reactionList |-> <<>>,
          periphTimers |-> EmptyBag, nextTimers |-> EmptyBag,
          score |-> <<>>, emitted |-> <<>>]

vars == <<gngVars, spanVars, fiveVars, built, gen, wait>>

----------------------------------------------------------------------------
(* Bounds of the model *)

\* Stimuli per session: TOTAL_STIMULI is 50 in the source; the model runs
\* sessions of this many stimuli.
TOTAL_STIMULI == 2
\* errorsRef is not counted beyond this by clicks on empty cells.
MaxErrors == 10
\* Pending queueSpawn timers.
MaxPending == TOTAL_STIMULI
\* Stimuli spawned since the component was mounted.
MaxSpawns == TOTAL_STIMULI + 1
\* emitScore calls recorded per session.
MaxScoreCalls == 2

(* Program constants *)
MAX_ACTIVE == 1
ADAPT_EVERY == 10
RECENT_HITS == 10
WINDOW_START == 800
WINDOW_MIN == 400
WINDOW_MAX == 1200

\* Cells of the 10x10 grid that the model places stimuli on and clicks:
\* 0 (column 0) and 44 (inner).
GRID_SIZE == 10
ModelCells == {0, 44}
\* Elapsed times (ms) of a click since the stimulus onset.
RTValues == {800, 900}

Colors == {"green", "red"}

----------------------------------------------------------------------------
(* Arithmetic *)

Max(a, b) == IF a >= b THEN a ELSE b
Min(a, b) == IF a <= b THEN a ELSE b

\* Math.round(p / q) for p >= 0, q > 0: the nearest integer, halves up.
Round(p, q) == (2 * p + q) \div (2 * q)

RECURSIVE SumSeq(_)
SumSeq(s) == IF s = <<>> THEN 0 ELSE Head(s) + SumSeq(Tail(s))

RECURSIVE MinSeq(_)
MinSeq(s) == IF Len(s) = 1 THEN s[1] ELSE Min(Head(s), MinSeq(Tail(s)))

\* list.slice(-n)
LastN(s, n) == IF Len(s) <= n THEN s ELSE SubSeq(s, Len(s) - n + 1, Len(s))

----------------------------------------------------------------------------
(* Part II, constants and initial state: the span tasks                    *)

\* Trials per block: SEQS_PER_BLOCK is 10 in the source.
SEQS_PER_BLOCK == 2
START_LEN == 3
MIN_LEN == 2
MAX_LEN == 7
GRID == 10

\* blocks: MODES, of which the model keeps the first two of
\* ["digits", "letters", "colors", "shapes"]; cp: BLOCKS.
MODES == <<"digits", "letters">>
BLOCKS == <<"central", "peripheral">>
BlockList == IF task = "blocks" THEN MODES ELSE BLOCKS

\* litIdx = null
NoCell == -1

\* resetStatsIfNeeded(): the entry of a modality; cp keeps spanMax only
\* (spanMaxRef = {central: 0, peripheral: 0}).
NewStats ==
  [spanMax |-> 0, hits |-> 0, total |-> 0, errors |-> 0, rtList |-> <<>>,
   spCorrByPos |-> [i \in 1 .. MAX_LEN |-> 0],
   spTotalByPos |-> [i \in 1 .. MAX_LEN |-> 0],
   trials |-> <<>>]

SpanMounted(tasks) ==
  /\ task \in tasks
  /\ spRunning = FALSE
  /\ phase = "idle"
  /\ blockIdx = 0
  /\ trialIdx = 0
  /\ litIdx = NoCell
  /\ seq = <<>>
  /\ seqLen = START_LEN
  /\ replayPos = 0
  /\ presentTimers = <<>>
  /\ looseTimers = <<>>
  /\ stats = [m \in {BlockList[i] : i \in DOMAIN BlockList} |-> NewStats]
  /\ statsReady = (task = "cp")
  /\ trialLog = <<>>
  /\ built = <<>>
  /\ spEmitted = <<>>
  /\ spScore = <<>>
  /\ finished = <<>>
  /\ responses = <<>>
  /\ stopPhase = "none"
  /\ spStarts = 0
  /\ lenTrace = <<>>
  /\ okTrace = <<>>

----------------------------------------------------------------------------
(* Part I: the go/no-go games                                              *)

Ids(stims) == {stims[i].id : i \in DOMAIN stims}

\* (mutant of RemoveId: the stimulus stays on display)
RemoveIdKeepsAll(stims, id) == stims

\* prev.filter(s => s.id !== id)
RemoveId(stims, id) == SelectSeq(stims, LAMBDA s : s.id # id)

\* (mutant of WithinWindow: a response exactly at the limit is late)
WithinWindowStrict(rt, w) == rt < w

\* withinWindow = nowMs() - stim.shownAt <= reactionWindowMsRef.current
WithinWindow(rt, w) == rt <= w

\* pickIndex (color): any cell of the grid; pickEdgeIndex (edges): a cell of
\* column 0 or column GRID_SIZE - 1.
PickCells ==
  IF variant = "edges"
    THEN {c \in ModelCells : c % GRID_SIZE \in {0, GRID_SIZE - 1}}
    ELSE ModelCells

\* (mutant of AccuracyPct: 0 when nothing was attempted)
AccuracyPctZeroWhenEmpty(h, e, m) ==
  IF h + e + m = 0 THEN 0 ELSE Round(100 * h, h + e + m)

\* stop(): accuracyPct = attempts ? Math.round((hits / attempts) * 100) : 100
AccuracyPct(h, e, m) ==
  IF h + e + m = 0 THEN 100 ELSE Round(100 * h, h + e + m)

\* stop(): the object passed to emitScore, {taskId, durationMs, metrics,
\* details}: its field names, and the metrics and details the model keeps.
StopReport(h, e, m, rl, hist, shown) ==
  [ fields |-> {"taskId", "durationMs", "metrics", "details"},
    hits |-> h, errors |-> e, misses |-> m,
    accuracyPct |-> AccuracyPct(h, e, m),
    reactionsCount |-> Len(rl),
    reactionTimeAvgMs |-> IF rl = <<>> THEN 0 ELSE Round(SumSeq(rl), Len(rl)),
    reactionTimeBestMs |-> IF rl = <<>> THEN 0 ELSE MinSeq(rl),
    reactionTimeListMs |-> rl,
    reactionWindowHistoryMs |-> hist,
    totalStimuli |-> shown ]

\* stop(): the END event.
EndEvent(h, e, m) ==
  [type |-> "END", hits |-> h, errors |-> e, misses |-> m,
   accuracyPct |-> AccuracyPct(h, e, m)]

\* (mutant of AdaptWindow: loosening without the ceiling WINDOW_MAX)
AdaptWindowNoCeiling(rl, m, e, shown, w) ==
  LET recentHits == LastN(rl, RECENT_HITS)
      n     == Len(recentHits)
      num   == IF n > 0 THEN SumSeq(recentHits) ELSE w
      den   == IF n > 0 THEN n ELSE 1
      d     == Max(1, shown)
      targetWindow == Max(WINDOW_MIN, Round(9 * num, 10 * den))
  IN  IF 20 * m < d /\ 20 * e < d /\ num < w * den
        THEN Max(WINDOW_MIN, targetWindow)
        ELSE IF 20 * m > 3 * d \/ 20 * e > 3 * d
               THEN Round(11 * w, 10)
               ELSE w

\* (mutant of AdaptWindow: the average is taken over all hits, not the last 10)
AdaptWindowAllHits(rl, m, e, shown, w) ==
  LET n     == Len(rl)
      num   == IF n > 0 THEN SumSeq(rl) ELSE w
      den   == IF n > 0 THEN n ELSE 1
      d     == Max(1, shown)
      targetWindow == Max(WINDOW_MIN, Round(9 * num, 10 * den))
  IN  IF 20 * m < d /\ 20 * e < d /\ num < w * den
        THEN Max(WINDOW_MIN, targetWindow)
        ELSE IF 20 * m > 3 * d \/ 20 * e > 3 * d
               THEN Min(WINDOW_MAX, Round(11 * w, 10))
               ELSE w

\* adaptDifficulty(): the new reactionWindowMsRef.current.
\*   avgRecent = sum / n of reactionList.slice(-10), or the window itself
\*   missRate  = misses / max(1, totalShown) compared with 0.05 and 0.15
\* The comparisons and Math.round are computed exactly on the fractions.
AdaptWindow(rl, m, e, shown, w) ==
  LET recentHits == LastN(rl, RECENT_HITS)
      n     == Len(recentHits)
      num   == IF n > 0 THEN SumSeq(recentHits) ELSE w   \* avgRecent = num / den
      den   == IF n > 0 THEN n ELSE 1
      d     == Max(1, shown)
      targetWindow == Max(WINDOW_MIN, Round(9 * num, 10 * den))
  IN  IF 20 * m < d /\ 20 * e < d /\ num < w * den
        THEN Max(WINDOW_MIN, targetWindow)
        ELSE IF 20 * m > 3 * d \/ 20 * e > 3 * d
               THEN Min(WINDOW_MAX, Round(11 * w, 10))
               ELSE w

\* (mutant of HistoryAfterAdapt: a window held steady is not recorded)
HistoryAfterChange(hist, w) == IF w = hist[Len(hist)] THEN hist ELSE Append(hist, w)
\* adaptHistoryRef.current.push(reactionWindowMsRef.current)
HistoryAfterAdapt(hist, w) == Append(hist, w)

\* What the setTimeout callback of a queueSpawn() called now will see:
\* queueSpawn is rebuilt when `running` (both games) or `stimuli.length`
\* (edges) changes, so the callback holds the values of the latest render.
QueueSpawnClosure ==
  [run |-> running, len |-> IF variant = "edges" THEN Len(stimuli) ELSE 0]

\* spawnStimulus has the dependencies [pickIndex, emitEvent, stop], none of
\* which changes: its expiry callbacks are closures of the first render, where
\* running = useState(false) and queueSpawn is the first render's queueSpawn.
SpawnStimulusRunning == FALSE
FirstRenderClosure == [run |-> FALSE, len |-> 0]

GngMounted(variants) ==
  /\ variant \in variants
  /\ running = FALSE
  /\ stimuli = <<>>
  /\ totalShown = 0
  /\ hits = 0
  /\ errors = 0
  /\ misses = 0
  /\ reactionList = <<>>
  /\ adaptHistory = <<WINDOW_START>>
  /\ reactionWindowMs = WINDOW_START
  /\ spawnTimers = EmptyBag
  /\ expiryTimers = {}
  /\ nextId = 0
  /\ emitted = <<>>
  /\ score = <<>>
  /\ outcomes = EmptyBag
  /\ clicksScored = 0
  /\ greenExpired = 0

Init == GngMounted({"color", "edges"}) /\ SpanMounted({"blocks"}) /\ FiveMounted /\ GenMounted /\ WaitMounted

\* start(): reset(), setRunning(true), START, queueSpawn() MAX_ACTIVE times.
start ==
  /\ UNCHANGED <<spanVars, fiveVars, built, gen, wait>>
  /\ BagCardinality(spawnTimers) < MaxPending
  /\ stimuli' = <<>>
  /\ expiryTimers' = expiryTimers \ Ids(stimuli)
  /\ totalShown' = 0
  /\ hits' = 0
  /\ errors' = 0
  /\ misses' = 0
  /\ reactionList' = <<>>
  /\ reactionWindowMs' = WINDOW_START
  /\ adaptHistory' = <<WINDOW_START>>
  /\ running' = TRUE
  /\ emitted' = <<[type |-> "START"]>>
  /\ spawnTimers' = spawnTimers (+) SetToBag({QueueSpawnClosure})
  /\ score' = <<>>
  /\ clicksScored' = 0
  /\ greenExpired' = 0
  /\ UNCHANGED <<variant, nextId, outcomes>>

\* stop(): setRunning(false), clearAllTimeouts(), END, emitScore(report).
stop ==
  /\ UNCHANGED <<spanVars, fiveVars, built, gen, wait>>
  /\ Len(score) < MaxScoreCalls
  /\ running' = FALSE
  /\ stimuli' = <<>>
  /\ expiryTimers' = expiryTimers \ Ids(stimuli)
  /\ emitted' = <<EndEvent(hits, errors, misses)>>
  /\ score' = Append(score, StopReport(hits, errors, misses, reactionList,
                                       adaptHistory, totalShown))
  /\ UNCHANGED <<variant, totalShown, hits, errors, misses, reactionList,
                 adaptHistory, reactionWindowMs, spawnTimers, nextId, outcomes,
                 clicksScored, greenExpired>>

\* The setTimeout callback of queueSpawn, with the closure cl it captured.
\*   color: if (!running) ..; if (prev.length >= MAX_ACTIVE) ..   (prev is live)
\*   edges: if (!running) ..; if (stimuli.length >= MAX_ACTIVE) .. (captured)
\* then spawnStimulus(): a new stimulus with its own expiry timer.
SpawnTimer(cl, idx, color) ==
  LET shown == IF variant = "edges" THEN cl.len ELSE Len(stimuli)
      spawns == cl.run /\ shown < MAX_ACTIVE /\ totalShown < TOTAL_STIMULI
      id == nextId + 1
  IN  /\ UNCHANGED <<spanVars, fiveVars, built, gen, wait>>
      /\ BagIn(cl, spawnTimers)
      /\ spawns => nextId < MaxSpawns
      /\ spawnTimers' = spawnTimers (-) SetToBag({cl})
      /\ IF spawns
           THEN /\ stimuli' = Append(stimuli, [id |-> id, idx |-> idx, color |-> color])
                /\ expiryTimers' = expiryTimers \cup {id}
                /\ totalShown' = totalShown + 1
                /\ nextId' = id
                /\ emitted' = <<[type |-> "STIMULUS", id |-> id, idx |-> idx,
                                 color |-> color]>>
           ELSE /\ emitted' = <<>>
                /\ UNCHANGED <<stimuli, expiryTimers, totalShown, nextId>>
      /\ UNCHANGED <<variant, running, hits, errors, misses, reactionList,
                     adaptHistory, reactionWindowMs, score, outcomes,
                     clicksScored, greenExpired>>

\* (mutant of MissesAfterExpiry: every expiry counts)
MissesAfterAnyExpiry(color, m) == m + 1
\* if (stim.color === "green") missesRef.current += 1
MissesAfterExpiry(color, m) == IF color = "green" THEN m + 1 ELSE m

\* The display timer of stimulus id (the setTimeout callback of spawnStimulus).
ExpiryTimer(id) ==
  /\ UNCHANGED <<spanVars, fiveVars, built, gen, wait>>
  /\ id \in expiryTimers
  /\ IF id \notin Ids(stimuli)
       THEN \* if (!stim) return prev
            /\ expiryTimers' = expiryTimers \ {id}
            /\ emitted' = <<>>
            /\ UNCHANGED <<running, stimuli, misses, spawnTimers, score, outcomes,
                           clicksScored, greenExpired>>
       ELSE LET stim  == CHOOSE s \in {stimuli[i] : i \in DOMAIN stimuli} : s.id = id
                green == stim.color = "green"
                m2    == MissesAfterExpiry(stim.color, misses)
                next  == RemoveId(stimuli, id)
                requeue == SpawnStimulusRunning /\ totalShown < TOTAL_STIMULI
                natural == totalShown >= TOTAL_STIMULI /\ next = <<>>
            IN  /\ natural => Len(score) < MaxScoreCalls
                /\ requeue => BagCardinality(spawnTimers) < MaxPending
                /\ misses' = m2
                /\ outcomes' = IF green THEN outcomes (+) SetToBag({id}) ELSE outcomes
                /\ greenExpired' = IF green THEN greenExpired + 1 ELSE greenExpired
                /\ UNCHANGED clicksScored
                /\ spawnTimers' = IF requeue
                                    THEN spawnTimers (+) SetToBag({FirstRenderClosure})
                                    ELSE spawnTimers
                /\ emitted' =
                     (IF green THEN <<[type |-> "MISS", idx |-> stim.idx, color |-> "green"]>>
                               ELSE <<>>)
                     \o (IF natural THEN <<EndEvent(hits, errors, m2)>> ELSE <<>>)
                /\ IF natural
                     THEN \* stop(): its clearAllTimeouts() empties the display
                          /\ running' = FALSE
                          /\ stimuli' = <<>>
                          /\ expiryTimers' = (expiryTimers \ {id}) \ Ids(next)
                          /\ score' = Append(score, StopReport(hits, errors, m2,
                                               reactionList, adaptHistory, totalShown))
                     ELSE /\ stimuli' = next
                          /\ expiryTimers' = expiryTimers \ {id}
                          /\ UNCHANGED <<running, score>>
  /\ UNCHANGED <<variant, totalShown, hits, errors, reactionList, adaptHistory,
                 reactionWindowMs, nextId>>

\* The stimulus a click on cellIdx is matched against.
\*   color: activeHere.find(s => s.color === "green") || activeHere[0]
\*   edges: stimuli.find(s => s.idx === cellIdx)
ActiveHere(cellIdx) == SelectSeq(stimuli, LAMBDA s : s.idx = cellIdx)
ClickedStim(cellIdx) ==
  LET activeHere == ActiveHere(cellIdx)
      greens == SelectSeq(activeHere, LAMBDA s : s.color = "green")
  IN  IF variant = "color" /\ greens # <<>> THEN greens[1] ELSE activeHere[1]

\* onCellClick(cellIdx, ev), rt ms after the onset of the stimulus clicked.
onCellClick(cellIdx, rt) ==
  UNCHANGED <<spanVars, fiveVars, built, gen, wait>> /\ (
  IF ~running
    THEN /\ emitted' = <<>>
         /\ UNCHANGED <<variant, running, stimuli, totalShown, hits, errors, misses,
                        reactionList, adaptHistory, reactionWindowMs, spawnTimers,
                        expiryTimers, nextId, score, outcomes, clicksScored,
                        greenExpired>>
  ELSE IF ActiveHere(cellIdx) = <<>>
    THEN /\ errors < MaxErrors
         /\ errors' = errors + 1
         /\ emitted' = <<[type |-> "ERROR_EMPTY", idx |-> cellIdx]>>
         /\ clicksScored' = clicksScored + 1
         /\ UNCHANGED <<variant, running, stimuli, totalShown, hits, misses,
                        reactionList, adaptHistory, reactionWindowMs, spawnTimers,
                        expiryTimers, nextId, score, outcomes, greenExpired>>
  ELSE
    LET stim == ClickedStim(cellIdx)
        withinWindow == WithinWindow(rt, reactionWindowMs)
        isHit == stim.color = "green" /\ withinWindow
        h2 == IF isHit THEN hits + 1 ELSE hits
        e2 == IF isHit THEN errors ELSE errors + 1
        rl2 == IF isHit THEN Append(reactionList, rt) ELSE reactionList
        adapts == isHit /\ (h2 + e2 + misses) % ADAPT_EVERY = 0
        w2 == IF adapts THEN AdaptWindow(rl2, misses, e2, totalShown, reactionWindowMs)
                        ELSE reactionWindowMs
        hist2 == IF adapts THEN HistoryAfterAdapt(adaptHistory, w2) ELSE adaptHistory
        next == RemoveId(stimuli, stim.id)
        requeue == running /\ totalShown < TOTAL_STIMULI
        natural == totalShown >= TOTAL_STIMULI /\ next = <<>>
    IN  /\ natural => Len(score) < MaxScoreCalls
        /\ requeue => BagCardinality(spawnTimers) < MaxPending
        /\ hits' = h2
        /\ errors' = e2
        /\ reactionList' = rl2
        /\ reactionWindowMs' = w2
        /\ adaptHistory' = hist2
        /\ outcomes' = outcomes (+) SetToBag({stim.id})
        /\ clicksScored' = clicksScored + 1
        /\ UNCHANGED greenExpired
        /\ spawnTimers' = IF requeue THEN spawnTimers (+) SetToBag({QueueSpawnClosure})
                                     ELSE spawnTimers
        /\ emitted' =
             (IF isHit
                THEN <<[type |-> "HIT", idx |-> stim.idx, color |-> "green",
                        reactionMs |-> rt]>>
                ELSE <<[type |-> "ERROR", idx |-> stim.idx, color |-> stim.color,
                        reason |-> IF stim.color = "red" THEN "no-go" ELSE "late",
                        reactionMs |-> rt]>>)
             \o (IF adapts THEN <<[type |-> "ADAPT", reactionWindowMs |-> w2]>> ELSE <<>>)
             \o (IF natural THEN <<EndEvent(h2, e2, misses)>> ELSE <<>>)
        /\ IF natural
             THEN /\ running' = FALSE
                  /\ stimuli' = <<>>
                  /\ expiryTimers' = (expiryTimers \ {stim.id}) \ Ids(next)
                  /\ score' = Append(score, StopReport(h2, e2, misses, rl2, hist2,
                                                       totalShown))
             ELSE /\ stimuli' = next
                  /\ expiryTimers' = expiryTimers \ {stim.id}
                  /\ UNCHANGED <<running, score>>
        /\ UNCHANGED <<variant, totalShown, misses, nextId>>
  )

SpawnTimerFires ==
  \E cl \in BagToSet(spawnTimers), idx \in PickCells, color \in Colors :
    SpawnTimer(cl, idx, color)

ExpiryTimerFires == \E id \in expiryTimers : ExpiryTimer(id)

CellClicked == \E cellIdx \in ModelCells, rt \in RTValues : onCellClick(cellIdx, rt)

Next ==
  \/ start
  \/ stop
  \/ CellClicked
  \/ SpawnTimerFires
  \/ ExpiryTimerFires

Spec == Init /\ [][Next]_vars

----------------------------------------------------------------------------
(* adaptDifficulty on its own: SpecAdapt                                   *)
(*                                                                         *)
(* In a session of the model adaptDifficulty runs at most once.  SpecAdapt *)
(* starts in the middle of a session of the source's length (up to 50      *)
(* stimuli), with the refs that adaptDifficulty reads drawn from sets that *)
(* straddle its thresholds, and runs it repeatedly.                        *)

\* Runs of adaptDifficulty: the length adaptHistory may reach.
MaxHistory == 7

\* The window and its history at the start: a fresh session, a session that
\* loosened four times, a session that tightened to the floor.
AdaptStarts ==
  { [w |-> WINDOW_START, hist |-> <<WINDOW_START>>],
    [w |-> 1172, hist |-> <<WINDOW_START, 880, 968, 1065, 1172>>],
    [w |-> WINDOW_MIN, hist |-> <<WINDOW_START, WINDOW_MIN>>] }

\* reactionListRef: the reaction times of the hits so far.  The last list has
\* eleven entries, so that slice(-10) drops one.
AdaptLists ==
  { <<>>, <<300>>, <<444>>, <<460>>, <<700, 800>>, <<800>>, <<1150>>,
    <<1100, 1000>>,
    <<100, 700, 700, 700, 700, 700, 700, 700, 700, 700, 700>> }

\* missesRef and errorsRef
AdaptCounts == 0 .. 3
\* totalShownRef: 1/20 is the 5% threshold, 3/20 the 15% threshold.
AdaptShown == {0, 1, 19, 20, 50}

MaxOfSeq(s) == CHOOSE x \in {s[i] : i \in DOMAIN s} :
                  \A i \in DOMAIN s : s[i] <= x

InitAdapt ==
  /\ SpanMounted({"blocks"})
  /\ FiveMounted /\ GenMounted /\ WaitMounted
  /\ variant \in {"color", "edges"}
  /\ running = TRUE
  /\ stimuli = <<>>
  /\ \E st \in AdaptStarts :
        /\ reactionWindowMs = st.w
        /\ adaptHistory = st.hist
  /\ reactionList \in AdaptLists
  /\ \A i \in DOMAIN reactionList : reactionList[i] <= MaxOfSeq(adaptHistory)
  /\ hits = Len(reactionList)
  /\ misses \in AdaptCounts
  /\ errors \in AdaptCounts
  /\ totalShown \in AdaptShown
  /\ hits + misses <= totalShown
  /\ spawnTimers = EmptyBag
  /\ expiryTimers = {}
  /\ nextId = 0
  /\ emitted = <<>>
  /\ score = <<>>
  /\ outcomes = EmptyBag
  /\ clicksScored = hits + errors
  /\ greenExpired = misses

\* adaptDifficulty(): the new window is stored, pushed to the history and
\* reported by an ADAPT event.
adaptDifficulty ==
  LET newWindow == AdaptWindow(reactionList, misses, errors, totalShown,
                               reactionWindowMs)
  IN  /\ UNCHANGED <<spanVars, fiveVars, built, gen, wait>>
      /\ Len(adaptHistory) < MaxHistory
      /\ reactionWindowMs' = newWindow
      /\ adaptHistory' = HistoryAfterAdapt(adaptHistory, newWindow)
      /\ emitted' = <<[type |-> "ADAPT", reactionWindowMs |-> newWindow]>>
      /\ UNCHANGED <<variant, running, stimuli, totalShown, hits, errors, misses,
                     reactionList, spawnTimers, expiryTimers, nextId, score,
                     outcomes, clicksScored, greenExpired>>

NextAdapt ==
  \/ adaptDifficulty
  \/ start

SpecAdapt == InitAdapt /\ [][NextAdapt]_vars

\* C4: the reaction window, and every value of its history, is within
\* [400, 1200] ms in every reachable state, whatever the hits, errors, misses
\* and reaction times are and however often the adaptation runs or the
\* session is restarted.
C4_WindowWithinBounds ==
  /\ reactionWindowMs \in WINDOW_MIN .. WINDOW_MAX
  /\ \A i \in DOMAIN adaptHistory : adaptHistory[i] \in WINDOW_MIN .. WINDOW_MAX

\* C4 witness: a loosening step of a window whose 110% exceeds 1200 ended at
\* 1200.
C4_Witness ==
  \E i \in 1 .. Len(adaptHistory) - 1 :
     /\ 11 * adaptHistory[i] > 10 * WINDOW_MAX
     /\ adaptHistory[i + 1] = WINDOW_MAX

\* C5: each run of the adaptation (a step that appends to the history)
\* computes the window from the state before it:
\*   miss-rate = misses / max(1, totalShown), error-rate likewise,
\*   recentAvg = the mean of the last (up to 10) hit reaction times, or the
\*               current window when there is no hit;
\*   if both rates < 5% and recentAvg < window: max(400, round(recentAvg * 0.9))
\*   otherwise, if a rate > 15%:               min(1200, round(window * 1.1))
\*   otherwise:                                 the window unchanged.
\* A tightening step never increases the window, a loosening step never
\* decreases it.
C5_AdaptationFormula ==
  [][ Len(adaptHistory') = Len(adaptHistory) + 1 =>
        LET w        == reactionWindowMs
            shown    == IF totalShown >= 1 THEN totalShown ELSE 1
            first    == IF Len(reactionList) > 10 THEN Len(reactionList) - 9 ELSE 1
            k        == Len(reactionList) - first + 1
            sum      == IF k > 0 THEN SumSeq(SubSeq(reactionList, first,
                                                   Len(reactionList)))
                                 ELSE w
            cnt      == IF k > 0 THEN k ELSE 1
            lowRates == 100 * misses < 5 * shown /\ 100 * errors < 5 * shown
            highRate == 100 * misses > 15 * shown \/ 100 * errors > 15 * shown
            tighten  == lowRates /\ sum < w * cnt
            tenth9   == Round(9 * sum, 10 * cnt)
            tenth11  == Round(11 * w, 10)
        IN  /\ tighten =>
                 /\ reactionWindowMs' = (IF tenth9 > 400 THEN tenth9 ELSE 400)
                 /\ reactionWindowMs' <= w
            /\ (~tighten /\ highRate) =>
                 /\ reactionWindowMs' = (IF tenth11 < 1200 THEN tenth11 ELSE 1200)
                 /\ reactionWindowMs' >= w
            /\ (~tighten /\ ~highRate) => reactionWindowMs' = w
            /\ adaptHistory' = Append(adaptHistory, reactionWindowMs')
    ]_vars

\* C5 witness: with more than ten hits recorded, a run of the adaptation
\* tightened the window to a value above the floor, and a later run held it.
C5_Witness ==
  /\ Len(reactionList) > RECENT_HITS
  /\ \E i \in 1 .. Len(adaptHistory) - 2 :
        /\ adaptHistory[i + 1] < adaptHistory[i]
        /\ adaptHistory[i + 1] > WINDOW_MIN
        /\ adaptHistory[i + 2] = adaptHistory[i + 1]

----------------------------------------------------------------------------
(* Part II: the span tasks                                                 *)

\* Pending presentations (groups of on/off/respond timers) and pending
\* start-of-trial timers kept by the model.
MaxPresentations == 2
MaxLoose == 2
\* Sessions started on one component.
MaxStarts == 1
\* emitScore calls recorded per span session.
MaxSpanScores == 2

CELLS == GRID * GRID

\* regionFilter(region): inCenter = r >= 3 && r <= 6 && c >= 3 && c <= 6
InCenter(idx) ==
  LET r == idx \div GRID
      c == idx % GRID
  IN  r >= 3 /\ r <= 6 /\ c >= 3 /\ c <= 6
RegionCells(region) ==
  {idx \in 0 .. CELLS - 1 : IF region = "central" THEN InCenter(idx) ELSE ~InCenter(idx)}
AllCells == 0 .. CELLS - 1

\* Math.random(): the random sequences are the prefixes of these draws of
\* MAX_LEN distinct cells.
SeqPool ==
  { <<33, 34, 35, 36, 43, 44, 45>>, <<4, 17, 82, 99, 0, 9, 90>> }
\* randUniqueSeq(len) (blocks, cells = all) and randSeq(len, region) (cp)
RandSeq(len, cells) ==
  {SubSeq(b, 1, len) : b \in {d \in SeqPool : \A i \in 1 .. len : d[i] \in cells}}

\* Cells the model clicks: the cell the sequence expects next, a central cell
\* and a peripheral cell.
OtherCells == {33, 99}
SpanClickCells ==
  (IF replayPos < Len(seq) THEN {seq[replayPos + 1]} ELSE {}) \cup OtherCells
\* rt = Math.round(nowPerf - lastClickPerfRef.current): the ms since the
\* previous click (or since the respond phase began).
SpanRTs == {350}

\* arr[p] += 1 on a JS array (p counted from 0): beyond the end the array
\* grows and the new entries are not numbers (NotANumber).
NotANumber == -1
BumpAt(arr, p) ==
  IF p < Len(arr)
    THEN [arr EXCEPT ![p + 1] = @ + 1]
    ELSE arr \o [i \in 1 .. (p + 1 - Len(arr)) |-> NotANumber]

\* (mutant of NextLen: no clamp)
NextLenUnclamped(len, ok) == len + (IF ok THEN 1 ELSE -1)

\* finishTrial: clamp(seqLen + (ok ? 1 : -1), MIN_LEN, MAX_LEN) (blocks),
\* Math.max(MIN_LEN, Math.min(MAX_LEN, seqLen + (ok ? 1 : -1))) (cp)
NextLen(len, ok) == Max(MIN_LEN, Min(MAX_LEN, len + (IF ok THEN 1 ELSE -1)))

\* mode = MODES[blockIdx] (blocks), region = BLOCKS[blockIdx] (cp)
Mode == BlockList[blockIdx + 1]

\* The setTimeout calls of presentSequence / presentSeq, in program order,
\* from delay t on:
\*   arr.forEach(cell => { setTimeout(() => setLitIdx(cell), t); t += ON_MS;
\*                         setTimeout(() => setLitIdx(null), t); t += GAP_MS; });
\*   setTimeout(() => setPhase("respond") .., t)
ON_MS == 600
GAP_MS == 400
\* (for the mutant of Schedule: the offset scheduled a whole period late)
RECURSIVE CallbacksOffsetLate(_, _)
CallbacksOffsetLate(arr, t) ==
  IF arr = <<>>
    THEN << [at |-> t, lit |-> NoCell, respond |-> TRUE] >>
    ELSE << [at |-> t, lit |-> Head(arr), respond |-> FALSE],
            [at |-> t + ON_MS + ON_MS + GAP_MS, lit |-> NoCell, respond |-> FALSE] >>
           \o CallbacksOffsetLate(Tail(arr), t + ON_MS + GAP_MS)
RECURSIVE Callbacks(_, _)
Callbacks(arr, t) ==
  IF arr = <<>>
    THEN << [at |-> t, lit |-> NoCell, respond |-> TRUE] >>
    ELSE << [at |-> t, lit |-> Head(arr), respond |-> FALSE],
            [at |-> t + ON_MS, lit |-> NoCell, respond |-> FALSE] >>
           \o Callbacks(Tail(arr), t + ON_MS + GAP_MS)
\* (mutant of Schedule)
ScheduleOffsetLate(arr) == CallbacksOffsetLate(arr, 0)
Schedule(arr) == Callbacks(arr, 0)

\* The order in which the host runs the callbacks of one schedule: by delay,
\* and in the order of the setTimeout calls for equal delays.
RECURSIVE InsertByDelay(_, _)
InsertByDelay(x, s) ==
  IF s = <<>> THEN <<x>>
  ELSE IF Head(s).at <= x.at THEN <<Head(s)>> \o InsertByDelay(x, Tail(s))
  ELSE <<x>> \o s
RECURSIVE FiringOrder(_)
FiringOrder(s) ==
  IF s = <<>> THEN <<>>
  ELSE InsertByDelay(s[Len(s)], FiringOrder(SubSeq(s, 1, Len(s) - 1)))

\* The timers of one presentSequence / presentSeq call, of which `fired` have
\* run.  mode and trial are those of the render whose presentSequence it was.
NewPresentation(arr, mode, trial) ==
  [arr |-> arr, fired |-> 0, mode |-> mode, trial |-> trial]

\* A setTimeout(() => startTrial(len)) callback: startTrial is that of the
\* render that created the timer, with its mode / region and its trialIdx;
\* nextBlock >= 0 for the inter-block timer of blocks, which first sets
\* blockIdx, trialIdx and seqLen.
StartTrialClosure(len, nextBlock) ==
  [len |-> len, mode |-> Mode, trial |-> trialIdx, nextBlock |-> nextBlock]

EventTypes(evs) == {evs[i].type : i \in DOMAIN evs}

RemoveAt(s, i) == SubSeq(s, 1, i - 1) \o SubSeq(s, i + 1, Len(s))

\* buildReport (blocks), as read when it is built: the metrics per modality
\*   acc    = st.total > 0 ? Math.round((st.hits / st.total) * 100) : 0
\*   rtAvg  = st.rtList.length ? Math.round(sum / st.rtList.length) : 0
\*   rtBest = st.rtList.length ? Math.min(...st.rtList) : 0
\* and the details per modality and the trial log.
\* (mutant of ModeMetrics: the slowest reaction time as the best)
ModeMetricsSlowestAsBest(s) ==
  [spanMax |-> s.spanMax,
   accuracyPct |-> IF s.total > 0 THEN Round(100 * s.hits, s.total) ELSE 0,
   errors |-> s.errors,
   reactionTimeAvgMs |-> IF s.rtList # <<>> THEN Round(SumSeq(s.rtList), Len(s.rtList))
                                            ELSE 0,
   reactionTimeBestMs |-> IF s.rtList # <<>> THEN MaxOfSeq(s.rtList) ELSE 0]
ModeMetrics(s) ==
  [spanMax |-> s.spanMax,
   accuracyPct |-> IF s.total > 0 THEN Round(100 * s.hits, s.total) ELSE 0,
   errors |-> s.errors,
   reactionTimeAvgMs |-> IF s.rtList # <<>> THEN Round(SumSeq(s.rtList), Len(s.rtList))
                                            ELSE 0,
   reactionTimeBestMs |-> IF s.rtList # <<>> THEN MinSeq(s.rtList) ELSE 0]
ModeDetails(s) ==
  [spanMax |-> s.spanMax, hits |-> s.hits, total |-> s.total, errors |-> s.errors,
   rtList |-> s.rtList,
   serialPosition |-> [correct |-> s.spCorrByPos, total |-> s.spTotalByPos],
   trials |-> s.trials]
\* STM_Index = Math.round((0.6*spanScore + 0.4*accScore)*100), with
\*   spanScore = (sum of spanMax) / (MODES.length*MAX_LEN)
\*   accScore  = (sum of (total>0 ? hits/total : 0)) / MODES.length
\* as one fraction: the sum of the hits/total is AccNumer / ProdTotals.  (For
\* totals up to 7 per modality the double arithmetic of the source rounds to
\* the same integer as the exact fraction.)
HitsOf(s) == IF s.total > 0 THEN s.hits ELSE 0
TotalOf(s) == IF s.total > 0 THEN s.total ELSE 1
RECURSIVE ProdTotals(_, _)
ProdTotals(st, ms) ==
  IF ms = <<>> THEN 1 ELSE TotalOf(st[Head(ms)]) * ProdTotals(st, Tail(ms))
RECURSIVE AccNumer(_, _)
AccNumer(st, ms) ==
  IF ms = <<>>
    THEN 0
    ELSE HitsOf(st[Head(ms)]) * ProdTotals(st, Tail(ms))
           + TotalOf(st[Head(ms)]) * AccNumer(st, Tail(ms))
RECURSIVE SpanSum(_, _)
SpanSum(st, ms) ==
  IF ms = <<>> THEN 0 ELSE st[Head(ms)].spanMax + SpanSum(st, Tail(ms))
StmIndex(st) ==
  Round(60 * SpanSum(st, MODES) * ProdTotals(st, MODES)
          + 40 * MAX_LEN * AccNumer(st, MODES),
        Len(MODES) * MAX_LEN * ProdTotals(st, MODES))

BuildReport(st, log) ==
  [ fields |-> {"taskId", "sessionId", "durationMs", "metrics", "details"},
    metrics |-> [m \in DOMAIN st |-> ModeMetrics(st[m])],
    STM_Index |-> StmIndex(st),
    details |-> [perModality |-> [m \in DOMAIN st |-> ModeDetails(st[m])],
                 trialLog |-> log] ]

\* finishTrial (cp): the emitScore argument
CpReport(st, log) ==
  [ fields |-> {"taskId", "sessionId", "durationMs", "metrics", "details"},
    metrics |-> [span_central |-> st["central"].spanMax,
                 span_peripheral |-> st["peripheral"].spanMax],
    details |-> [logs |-> log] ]

\* start() of SpamperceptionBlocks
blocksStart ==
  /\ task = "blocks"
  /\ spStarts < MaxStarts
  /\ spStarts' = spStarts + 1
  /\ Len(looseTimers) < MaxLoose
  /\ statsReady' = TRUE
  /\ spRunning' = TRUE
  /\ blockIdx' = 0
  /\ trialIdx' = 0
  /\ seqLen' = START_LEN
  /\ phase' = "present"
  /\ seq' = <<>>
  /\ trialLog' = <<>>
  /\ spEmitted' = <<[type |-> "START"]>>
  /\ looseTimers' = Append(looseTimers, StartTrialClosure(START_LEN, -1))
  /\ spScore' = <<>>
  /\ finished' = <<>>
  /\ responses' = <<>>
  /\ stopPhase' = "none"
  /\ UNCHANGED <<task, litIdx, replayPos, presentTimers, stats, lenTrace, okTrace>>
  /\ UNCHANGED <<gngVars, fiveVars, built, gen, wait>>

\* stop() of SpamperceptionBlocks: clearTimers(), setRunning(false),
\* buildReport(), END, emitScore(report).  Before the first start() statsRef
\* is {} and buildReport throws on st.total.
blocksStop ==
  /\ task = "blocks"
  /\ presentTimers' = <<>>
  /\ spRunning' = FALSE
  /\ IF statsReady
       THEN /\ Len(spScore) < MaxSpanScores
            /\ spEmitted' = <<[type |-> "END"]>>
            /\ spScore' = Append(spScore, BuildReport(stats, trialLog))
       ELSE /\ spEmitted' = <<>>
            /\ UNCHANGED spScore
  /\ stopPhase' = phase
  /\ finished' = <<>>
  /\ UNCHANGED <<task, phase, blockIdx, trialIdx, litIdx, seq, seqLen, replayPos,
                 looseTimers, stats, statsReady, trialLog, responses, spStarts,
                 lenTrace, okTrace>>
  /\ UNCHANGED <<gngVars, fiveVars, built, gen, wait>>

\* start() of CentralPeripheralSpanTask
cpStart ==
  /\ task = "cp"
  /\ spStarts < MaxStarts
  /\ spStarts' = spStarts + 1
  /\ Len(looseTimers) < MaxLoose
  /\ presentTimers' = <<>>
  /\ spRunning' = TRUE
  /\ phase' = "between"
  /\ blockIdx' = 0
  /\ trialIdx' = 0
  /\ seqLen' = START_LEN
  /\ looseTimers' = Append(looseTimers, StartTrialClosure(START_LEN, -1))
  /\ spEmitted' = <<>>
  /\ spScore' = <<>>
  /\ finished' = <<>>
  /\ responses' = <<>>
  /\ stopPhase' = "none"
  /\ UNCHANGED <<task, litIdx, seq, replayPos, stats, statsReady, trialLog,
                 lenTrace, okTrace>>
  /\ UNCHANGED <<gngVars, fiveVars, built, gen, wait>>

\* A start-of-trial timer fires: (blocks, inter-block timer: setBlockIdx,
\* setTrialIdx(0), setSeqLen(START_LEN), setPhase("present");) startTrial(len):
\* setSeq(arr) and presentSequence(arr) / presentSeq(arr), which sets the
\* phase to "present", (blocks only:) the replay position to 0, and schedules
\* the timers of the presentation.
StartTrialTimer(i) ==
  LET t == looseTimers[i]
  IN  /\ Len(presentTimers) < MaxPresentations
      /\ looseTimers' = RemoveAt(looseTimers, i)
      /\ IF t.nextBlock >= 0
           THEN /\ blockIdx' = t.nextBlock
                /\ trialIdx' = 0
                /\ seqLen' = START_LEN
           ELSE UNCHANGED <<blockIdx, trialIdx, seqLen>>
      /\ \E arr \in RandSeq(t.len, IF task = "blocks" THEN AllCells
                                                        ELSE RegionCells(t.mode)) :
           /\ seq' = arr
           /\ presentTimers' =
                Append(presentTimers, NewPresentation(arr, t.mode, t.trial))
      /\ phase' = "present"
      /\ replayPos' = IF task = "blocks" THEN 0 ELSE replayPos
      /\ spEmitted' = <<>>
      /\ finished' = <<>>
      /\ responses' = <<>>
      /\ UNCHANGED <<task, spRunning, litIdx, stats, statsReady, trialLog, spScore,
                     stopPhase, spStarts, lenTrace, okTrace>>
      /\ UNCHANGED <<gngVars, fiveVars, built, gen, wait>>

\* The next timer of presentation i fires: setLitIdx(cell), setLitIdx(null),
\* or, last, setPhase("respond") (blocks: with the SEQ_PRESENTED event).
PresentTimer(i) ==
  LET p == presentTimers[i]
      k == p.fired + 1
      n == Len(p.arr)
      order == FiringOrder(Schedule(p.arr))
      cb == order[k]
  IN  /\ IF cb.respond
           THEN /\ phase' = "respond"
                /\ spEmitted' = IF task = "blocks"
                                  THEN <<[type |-> "SEQ_PRESENTED", mode |-> p.mode,
                                          len |-> n, trial |-> p.trial + 1]>>
                                  ELSE <<>>
                /\ presentTimers' = IF k = Len(order)
                                      THEN RemoveAt(presentTimers, i)
                                      ELSE [presentTimers EXCEPT ![i].fired = k]
                /\ UNCHANGED litIdx
           ELSE /\ litIdx' = cb.lit
                /\ presentTimers' = IF k = Len(order)
                                      THEN RemoveAt(presentTimers, i)
                                      ELSE [presentTimers EXCEPT ![i].fired = k]
                /\ spEmitted' = <<>>
                /\ UNCHANGED phase
      /\ finished' = <<>>
      /\ UNCHANGED <<task, spRunning, blockIdx, trialIdx, seq, seqLen, replayPos,
                     looseTimers, stats, statsReady, trialLog, spScore, responses,
                     stopPhase, spStarts, lenTrace, okTrace>>
      /\ UNCHANGED <<gngVars, fiveVars, built, gen, wait>>

\* A click that the handler drops: if (phase !== "respond") return
ClickIgnored ==
  /\ spEmitted' = <<>>
  /\ finished' = <<>>
  /\ UNCHANGED <<task, spRunning, phase, blockIdx, trialIdx, litIdx, seq, seqLen,
                 replayPos, presentTimers, looseTimers, stats, statsReady, trialLog,
                 spScore, responses, stopPhase, spStarts, lenTrace, okTrace>>

\* correct = (cellIdx === seq[replayPos]); seq[replayPos] is undefined beyond
\* the end of seq.
Correct(cellIdx) == replayPos < Len(seq) /\ cellIdx = seq[replayPos + 1]

\* onCellClick(cellIdx) of SpamperceptionBlocks, with finishTrial(ok) and the
\* startTrial(nextLen) it calls.
blocksOnCellClick(cellIdx, rt) ==
  /\ task = "blocks"
  /\ UNCHANGED <<gngVars, fiveVars, built, gen, wait>>
  /\ IF phase # "respond" THEN ClickIgnored ELSE
     LET st       == stats[Mode]
         correct  == Correct(cellIdx)
         nextPos  == replayPos + 1
         finishes == ~correct \/ nextPos >= Len(seq)
         st1      == [st EXCEPT !.total = @ + 1,
                                !.spTotalByPos = BumpAt(@, replayPos),
                                !.hits = IF correct THEN @ + 1 ELSE @,
                                !.rtList = IF correct /\ rt > 0 THEN Append(@, rt) ELSE @,
                                !.spCorrByPos = IF correct THEN BumpAt(@, replayPos) ELSE @,
                                !.errors = IF correct THEN @ ELSE @ + 1]
         \* trialLogRef.current.push({ts, mode, trial, pos, expected, clicked,
         \* correct, rt}): the model keeps mode, trial, pos and correct
         entry    == [mode |-> Mode, trial |-> trialIdx + 1, pos |-> replayPos,
                      correct |-> correct]
         \* finishTrial(ok), ok = correct
         st2      == [st1 EXCEPT !.trials = Append(@, [len |-> Len(seq), ok |-> correct]),
                                 !.spanMax = IF correct THEN Max(@, Len(seq)) ELSE @]
         nextLen  == NextLen(seqLen, correct)
         blockEnd == trialIdx + 1 >= SEQS_PER_BLOCK
         lastBlock == blockIdx + 1 >= Len(MODES)
         result   == [type |-> IF correct THEN "RESP_OK" ELSE "RESP_ERR"]
     IN  /\ trialLog' = Append(trialLog, entry)
         /\ IF ~finishes
              THEN /\ stats' = [stats EXCEPT ![Mode] = st1]
                   /\ replayPos' = nextPos
                   /\ responses' = Append(responses, cellIdx)
                   /\ spEmitted' = <<>>
                   /\ finished' = <<>>
                   /\ UNCHANGED <<spRunning, phase, blockIdx, trialIdx, seq, seqLen,
                                  presentTimers, looseTimers, spScore>>
              ELSE /\ stats' = [stats EXCEPT ![Mode] = st2]
                   /\ seqLen' = nextLen
                   /\ finished' = <<correct>>
                   /\ responses' = <<>>
                   /\ IF blockEnd
                        THEN /\ phase' = "between"
                             /\ replayPos' = IF correct THEN nextPos ELSE replayPos
                             /\ spEmitted' = <<result, [type |-> "BLOCK_END"]>>
                             /\ UNCHANGED <<trialIdx, seq, presentTimers>>
                             /\ IF lastBlock
                                  THEN /\ Len(spScore) < MaxSpanScores
                                       /\ spRunning' = FALSE
                                       /\ blockIdx' = Len(MODES) - 1
                                       /\ spScore' = Append(spScore,
                                                         BuildReport(stats', trialLog'))
                                       /\ UNCHANGED looseTimers
                                  ELSE /\ Len(looseTimers) < MaxLoose
                                       /\ looseTimers' =
                                            Append(looseTimers,
                                                   StartTrialClosure(START_LEN, blockIdx + 1))
                                       /\ UNCHANGED <<spRunning, blockIdx, spScore>>
                        ELSE /\ Len(presentTimers) < MaxPresentations
                             /\ trialIdx' = trialIdx + 1
                             /\ phase' = "present"
                             /\ \E arr \in RandSeq(nextLen, AllCells) :
                                  /\ seq' = arr
                                  /\ presentTimers' =
                                       Append(presentTimers,
                                              NewPresentation(arr, Mode, trialIdx))
                             /\ replayPos' = 0
                             /\ spEmitted' = <<result>>
                             /\ UNCHANGED <<spRunning, blockIdx, looseTimers, spScore>>
         /\ UNCHANGED <<task, litIdx, statsReady, stopPhase, spStarts, lenTrace, okTrace>>

\* onCellClick(i) of CentralPeripheralSpanTask, with finishTrial(ok).
cpOnCellClick(cellIdx) ==
  /\ task = "cp"
  /\ UNCHANGED <<gngVars, fiveVars, built, gen, wait>>
  /\ IF phase # "respond" THEN ClickIgnored ELSE
     LET correct  == Correct(cellIdx)
         finishes == ~correct \/ replayPos + 1 >= Len(seq)
         region   == Mode
         nextLen  == NextLen(seqLen, correct)
         blockEnd == trialIdx + 1 >= SEQS_PER_BLOCK
         lastBlock == blockIdx + 1 >= Len(BLOCKS)
         \* logsRef.current.push({ts, i, correct, block, pos}): the model keeps
         \* correct, block and pos
         entry    == [correct |-> correct, block |-> Mode, pos |-> replayPos]
     IN  /\ trialLog' = Append(trialLog, entry)
         /\ IF ~finishes
           THEN /\ replayPos' = replayPos + 1
                /\ responses' = Append(responses, cellIdx)
                /\ spEmitted' = <<>>
                /\ finished' = <<>>
                /\ UNCHANGED <<task, spRunning, phase, blockIdx, trialIdx, litIdx, seq,
                               seqLen, presentTimers, looseTimers, stats, statsReady,
                               spScore, stopPhase, spStarts, lenTrace, okTrace>>
           ELSE /\ stats' = [stats EXCEPT ![region].spanMax =
                                 IF correct THEN Max(@, Len(seq)) ELSE @]
                /\ finished' = <<correct>>
                /\ responses' = <<>>
                /\ spEmitted' = <<>>
                /\ IF blockEnd /\ lastBlock
                     THEN /\ Len(spScore) < MaxSpanScores
                          /\ seqLen' = nextLen
                          /\ spRunning' = FALSE
                          /\ phase' = "idle"
                          /\ spScore' = Append(spScore, CpReport(stats', trialLog'))
                          /\ UNCHANGED <<blockIdx, trialIdx, looseTimers>>
                     ELSE /\ Len(looseTimers) < MaxLoose
                          /\ phase' = "between"
                          /\ IF blockEnd
                               THEN /\ blockIdx' = blockIdx + 1
                                    /\ trialIdx' = 0
                                    /\ seqLen' = START_LEN
                                    /\ looseTimers' =
                                         Append(looseTimers, StartTrialClosure(START_LEN, -1))
                               ELSE /\ trialIdx' = trialIdx + 1
                                    /\ seqLen' = nextLen
                                    /\ looseTimers' =
                                         Append(looseTimers, StartTrialClosure(nextLen, -1))
                                    /\ UNCHANGED blockIdx
                          /\ UNCHANGED <<spRunning, spScore>>
                /\ UNCHANGED <<task, litIdx, seq, replayPos, presentTimers, statsReady,
                               stopPhase, spStarts, lenTrace, okTrace>>

StartTrialTimerFires == \E i \in DOMAIN looseTimers : StartTrialTimer(i)

PresentTimerFires == \E i \in DOMAIN presentTimers : PresentTimer(i)

blocksCellClicked ==
  \E cellIdx \in SpanClickCells, rt \in SpanRTs : blocksOnCellClick(cellIdx, rt)

cpCellClicked == \E cellIdx \in SpanClickCells : cpOnCellClick(cellIdx)

InitSpan == GngMounted({"color"}) /\ SpanMounted({"blocks", "cp"}) /\ FiveMounted /\ GenMounted /\ WaitMounted

NextSpan ==
  \/ blocksStart
  \/ blocksStop
  \/ cpStart
  \/ blocksCellClicked
  \/ cpCellClicked
  \/ StartTrialTimerFires
  \/ PresentTimerFires

SpecSpan == InitSpan /\ [][NextSpan]_vars

----------------------------------------------------------------------------
(* The length adjustment of finishTrial on its own: SpecLen                *)
(*                                                                         *)
(* A block of the model has SEQS_PER_BLOCK trials, too few to walk the     *)
(* length from one end of its range to the other.  SpecLen starts in a     *)
(* trial of any length and applies the adjustment of finishTrial to any    *)
(* sequence of outcomes, recording the lengths.                            *)

\* Trials concluded in a row.
MaxTraceTrials == 8

InitLen ==
  /\ GngMounted({"color"})
  /\ FiveMounted /\ GenMounted /\ WaitMounted
  /\ task \in {"blocks", "cp"}
  /\ spRunning = TRUE
  /\ phase = "respond"
  /\ blockIdx = 0
  /\ trialIdx = 0
  /\ litIdx = NoCell
  /\ seqLen \in MIN_LEN .. MAX_LEN
  /\ seq \in RandSeq(seqLen, RegionCells("central"))
  /\ replayPos = 0
  /\ presentTimers = <<>>
  /\ looseTimers = <<>>
  /\ stats = [m \in {BlockList[i] : i \in DOMAIN BlockList} |-> NewStats]
  /\ statsReady = TRUE
  /\ trialLog = <<>>
  /\ built = <<>>
  /\ spEmitted = <<>>
  /\ spScore = <<>>
  /\ finished = <<>>
  /\ responses = <<>>
  /\ stopPhase = "none"
  /\ spStarts = 1
  /\ lenTrace = <<seqLen>>
  /\ okTrace = <<>>

\* finishTrial(ok): const nextLen = clamp(seqLen + (ok ? 1 : -1), ..);
\* setSeqLen(nextLen)
adjustLength(ok) ==
  /\ Len(okTrace) < MaxTraceTrials
  /\ seqLen' = NextLen(seqLen, ok)
  /\ lenTrace' = Append(lenTrace, seqLen')
  /\ okTrace' = Append(okTrace, ok)
  /\ finished' = <<ok>>
  /\ UNCHANGED <<task, spRunning, phase, blockIdx, trialIdx, litIdx, seq, replayPos,
                 presentTimers, looseTimers, stats, statsReady, trialLog, spEmitted,
                 spScore, responses, stopPhase, spStarts>>
  /\ UNCHANGED <<gngVars, fiveVars, built, gen, wait>>

NextLenSpec == \E ok \in BOOLEAN : adjustLength(ok)

SpecLen == InitLen /\ [][NextLenSpec]_vars

\* C1: when a trial concludes, the next sequence length is
\* clamp(currentLength + (correct ? +1 : -1), 2, 7), whatever happened in the
\* trials before; so the length stays in 2..7, five correct trials from 3
\* give 3,4,5,6,7,7 and six incorrect trials from 7 give 7,6,5,4,3,2,2.
C1_LengthClamp ==
  /\ seqLen \in 2 .. 7
  /\ seqLen = lenTrace[Len(lenTrace)]
  /\ Len(lenTrace) = Len(okTrace) + 1
  /\ \A i \in DOMAIN okTrace :
        LET v == lenTrace[i] + (IF okTrace[i] THEN 1 ELSE -1)
        IN  lenTrace[i + 1] = (IF v < 2 THEN 2 ELSE IF v > 7 THEN 7 ELSE v)
  /\ (lenTrace[1] = 3 /\ okTrace = <<TRUE, TRUE, TRUE, TRUE, TRUE>>)
        => lenTrace = <<3, 4, 5, 6, 7, 7>>
  /\ (lenTrace[1] = 7 /\ okTrace = <<FALSE, FALSE, FALSE, FALSE, FALSE, FALSE>>)
        => lenTrace = <<7, 6, 5, 4, 3, 2, 2>>

\* C1 witness: a run of trials in which a correct trial at length 7 was
\* followed by length 7 and an incorrect trial at length 2 by length 2.
C1_Witness ==
  \E i, j \in DOMAIN okTrace :
     /\ okTrace[i] /\ lenTrace[i] = MAX_LEN /\ lenTrace[i + 1] = MAX_LEN
     /\ ~okTrace[j] /\ lenTrace[j] = MIN_LEN /\ lenTrace[j + 1] = MIN_LEN

----------------------------------------------------------------------------
(* Claims about the span tasks, checked under SpecSpan                     *)

\* C2 (as claimed): in the respond phase of a trial with sequence seq, with
\* `responses` the clicks taken so far in this trial, a click is correct iff
\* its cell is seq[Len(responses)] (counting from 0); a correct click that is
\* not the last advances the position by one and concludes nothing; the
\* trial concludes correct exactly when the clicks reproduce seq from its
\* first element to its last; the first mismatch concludes it incorrect; and
\* a concluded trial takes no further click.
C2_OrderedMatching ==
  [][ \A c \in SpanClickCells :
        (phase = "respond" /\ ((\E rt \in SpanRTs : blocksOnCellClick(c, rt))
                                \/ cpOnCellClick(c))) =>
           LET pos     == Len(responses)
               correct == pos < Len(seq) /\ c = seq[pos + 1]
           IN  /\ (correct /\ pos + 1 < Len(seq)) =>
                      /\ finished' = <<>>
                      /\ replayPos' = replayPos + 1
                      /\ phase' = "respond"
               /\ (correct /\ pos + 1 = Len(seq)) => finished' = <<TRUE>>
               /\ ~correct => finished' = <<FALSE>>
               /\ finished' = <<TRUE>> => Append(responses, c) = seq
               /\ finished' # <<>> => phase' # "respond"
    ]_vars

\* C8 (as claimed): in SpamperceptionBlocks, from a stop() called in phase
\* "present" on (until the next start()), no cell is lit or unlit, the phase
\* does not change and no SEQ_PRESENTED event is emitted; and that stop()
\* emits a report whose counters are the per-modality stats at that moment.
C8_StopDuringPresent ==
  [][ /\ (task = "blocks" /\ stopPhase = "present" /\ stopPhase' = "present") =>
           /\ litIdx' = litIdx
           /\ phase' = phase
           /\ "SEQ_PRESENTED" \notin EventTypes(spEmitted')
      /\ (blocksStop /\ phase = "present") =>
           /\ Len(spScore') = Len(spScore) + 1
           /\ \A m \in DOMAIN stats :
                LET d == spScore'[Len(spScore')].details.perModality[m]
                IN  /\ d.hits = stats[m].hits
                    /\ d.total = stats[m].total
                    /\ d.errors = stats[m].errors
                    /\ d.spanMax = stats[m].spanMax
    ]_vars

----------------------------------------------------------------------------
(* Claims about the go/no-go games, checked under Spec                     *)

\* C3: a click while running, on a cell that holds at most one stimulus, is a
\* hit (hits + 1, nothing else counted) iff the cell holds a stimulus that is
\* green and the elapsed time is at most the reaction window; every other
\* click while running is an error (errors + 1, nothing else counted): a red
\* stimulus, an empty cell, a green stimulus after the window.  A green
\* stimulus whose display timer fires is a miss (misses + 1, nothing else
\* counted); a red one whose timer fires changes no counter.
C3_ClickAndExpiryScoring ==
  [][ /\ \A c \in ModelCells, rt \in RTValues :
           (running /\ Len(ActiveHere(c)) <= 1 /\ onCellClick(c, rt)) =>
              LET isHit == \E i \in DOMAIN stimuli :
                              /\ stimuli[i].idx = c
                              /\ stimuli[i].color = "green"
                              /\ rt <= reactionWindowMs
              IN  /\ misses' = misses
                  /\ IF isHit THEN hits' = hits + 1 /\ errors' = errors
                              ELSE hits' = hits /\ errors' = errors + 1
      /\ \A id \in expiryTimers :
           ExpiryTimer(id) =>
              LET green == \E i \in DOMAIN stimuli :
                              stimuli[i].id = id /\ stimuli[i].color = "green"
              IN  /\ hits' = hits /\ errors' = errors
                  /\ misses' = IF green THEN misses + 1 ELSE misses
    ]_vars

\* C3 witness: a session in which a green stimulus was hit exactly at the
\* limit of the window, a click was scored as an error and a miss was recorded.
C3_Witness ==
  /\ hits > 0 /\ errors > 0 /\ misses > 0
  /\ \E i \in DOMAIN reactionList : reactionList[i] = WINDOW_START

\* C6 (as claimed): every scored outcome that brings hits + errors + misses to
\* a multiple of 10 appends one value to the window history.
C6_AdaptOnEveryTenthOutcome ==
  [][ LET before == hits + errors + misses
          after  == hits' + errors' + misses'
      IN  (after = before + 1 /\ after % ADAPT_EVERY = 0) =>
             Len(adaptHistory') = Len(adaptHistory) + 1
    ]_vars

\* C7 (as claimed, weakened in the claim's favour): within a session a second
\* emitScore call is never made by a click or a timer; only a further call of
\* stop() itself could make one.
C7_NoSecondScoreFromEngine ==
  [][ (Len(score) >= 1 /\ Len(score') = Len(score) + 1) => stop ]_vars

\* C9 (as claimed): from stop() to the next start() the counters, the window
\* and the display do not change and no STIMULUS, HIT, ERROR, MISS or ADAPT
\* event is emitted.  (score is non-empty exactly from a stop() to the next
\* start().)
C9_NothingChangesAfterStop ==
  [][ (score # <<>> /\ score' # <<>>) =>
        /\ hits' = hits /\ errors' = errors /\ misses' = misses
        /\ totalShown' = totalShown
        /\ reactionWindowMs' = reactionWindowMs
        /\ stimuli' = stimuli
        /\ EventTypes(emitted') \cap
             {"STIMULUS", "HIT", "ERROR", "ERROR_EMPTY", "MISS", "ADAPT"} = {}
    ]_vars

C11_ClickOutsideRespondOrStopped ==
  [][ \A c \in SpanClickCells :
        ( /\ phase # "respond" \/ ~spRunning
          /\ (\E rt \in SpanRTs : blocksOnCellClick(c, rt)) \/ cpOnCellClick(c) ) =>
            /\ UNCHANGED <<stats, trialLog, replayPos, seqLen, trialIdx, blockIdx, phase>>
            /\ spEmitted' = <<>>
    ]_vars

\* The part of C11 that holds: a click in a phase other than "respond" changes
\* nothing and emits nothing.
C11_ClickOutsideRespond ==
  [][ \A c \in SpanClickCells :
        ( /\ phase # "respond"
          /\ (\E rt \in SpanRTs : blocksOnCellClick(c, rt)) \/ cpOnCellClick(c) ) =>
            /\ UNCHANGED <<stats, trialLog, replayPos, seqLen, trialIdx, blockIdx, phase>>
            /\ spEmitted' = <<>>
    ]_vars

\* The changes of <<hits, errors, misses>> that one scored outcome makes.
CounterSteps ==
  { <<1, 0, 0>>, <<0, 1, 0>>, <<0, 0, 1>> }

\* C12: in the go/no-go game hits + errors + misses equals the number of
\* clicks scored while running plus the number of green stimuli whose display
\* timer expired unclicked, in every reachable state; every scored click and
\* every such expiry changes exactly one of the three counters, by exactly 1;
\* and no counter decreases except by the reset of start().
C12_CountersCountOutcomes ==
  [][ /\ hits' + errors' + misses' = clicksScored' + greenExpired'
      /\ (clicksScored' + greenExpired' = clicksScored + greenExpired + 1) =>
            <<hits' - hits, errors' - errors, misses' - misses>> \in CounterSteps
      /\ (emitted' # <<[type |-> "START"]>>) =>
            /\ hits' >= hits /\ errors' >= errors /\ misses' >= misses
            /\ clicksScored' + greenExpired' \in
                 {clicksScored + greenExpired, clicksScored + greenExpired + 1}
    ]_vars

\* C12 witness: in one session a click was scored as a hit, another as an
\* error, and a green stimulus expired unclicked.
C12_Witness ==
  /\ hits > 0 /\ errors > 0 /\ misses > 0
  /\ clicksScored = hits + errors
  /\ greenExpired = misses

\* C13: the accuracyPct of every go/no-go report is hits / (hits + errors +
\* misses) * 100 rounded to the nearest integer (a half rounds up), of the
\* counters at the moment stop() runs, and is 100 when the three counters
\* are all 0.
C13_ReportAccuracy ==
  [][ Len(score') > Len(score) =>
        LET acc == score'[Len(score')].accuracyPct
            n   == hits' + errors' + misses'
        IN  /\ score'[Len(score')].hits = hits'
            /\ score'[Len(score')].errors = errors'
            /\ score'[Len(score')].misses = misses'
            /\ n = 0 => acc = 100
            /\ n > 0 => /\ (2 * acc - 1) * n <= 200 * hits'
                        /\ 200 * hits' < (2 * acc + 1) * n
    ]_vars

\* C13 witness: a report of a session with one hit among three outcomes:
\* 33 per cent.
C13_Witness ==
  /\ score # <<>>
  /\ hits = 1 /\ errors + misses = 2
  /\ score[Len(score)].accuracyPct = 33

----------------------------------------------------------------------------
(* Part III: the report of FiveTargetReactionGame: SpecFive                *)
(*                                                                         *)
(* stop() reads hitsRef and errorsRef and builds the report.  SpecFive     *)
(* starts with the two counters at any values a session can reach (at most *)
(* TOTAL_SETS * TARGETS_PER_SET hits, any number of clicks on empty cells) *)
(* and calls stop().                                                       *)

TOTAL_SETS == 10
TARGETS_PER_SET == 5
\* Clicks on empty cells in a session.
MaxFiveErrors == 12
\* Calls of stop().
MaxFiveScores == 2

\* stop(): Math.round((hits / (hits + errors)) * 100) || 100
\* 0 / 0 is NaN and Math.round(NaN) is NaN; NaN and 0 are both falsy.
FiveAccuracyPct(h, e) ==
  IF h + e = 0
    THEN 100
    ELSE LET r == Round(100 * h, h + e)
         IN  IF r = 0 THEN 100 ELSE r

\* stop(): the object passed to emitScore, {taskId, durationMs, metrics,
\* details}: its field names, and the metrics the model keeps.
FiveReport(h, e) ==
  [ fields |-> {"taskId", "durationMs", "metrics", "details"},
    hits |-> h, errors |-> e, accuracyPct |-> FiveAccuracyPct(h, e) ]

InitFive ==
  /\ GngMounted({"color"})
  /\ SpanMounted({"blocks"})
  /\ ftRunning \in BOOLEAN
  /\ ftHits \in 0 .. TOTAL_SETS * TARGETS_PER_SET
  /\ ftErrors \in 0 .. MaxFiveErrors
  /\ ftScore = <<>>
  /\ ftGame = FiveGameMounted
  /\ GenMounted /\ WaitMounted

\* stop() of FiveTargetReactionGame
fiveStop ==
  /\ Len(ftScore) < MaxFiveScores
  /\ ftRunning' = FALSE
  /\ ftScore' = Append(ftScore, FiveReport(ftHits, ftErrors))
  /\ UNCHANGED <<ftHits, ftErrors, ftGame>>
  /\ UNCHANGED <<gngVars, spanVars, built, gen, wait>>

NextFive == fiveStop

SpecFive == InitFive /\ [][NextFive]_vars

\* C14 (as claimed): the accuracyPct of every FiveTargetReactionGame report is
\* hits / (hits + errors) * 100 rounded to the nearest integer for every pair
\* of counter values with hits + errors > 0, and 100 when hits + errors is 0.
C14_FiveTargetAccuracy ==
  \A i \in DOMAIN ftScore :
    LET acc == ftScore[i].accuracyPct
        n   == ftScore[i].hits + ftScore[i].errors
    IN  /\ n = 0 => acc = 100
        /\ n > 0 => /\ (2 * acc - 1) * n <= 200 * ftScore[i].hits
                    /\ 200 * ftScore[i].hits < (2 * acc + 1) * n

\* The part of C14 that holds: the claimed value whenever it is not 0.
C14_AccuracyUnlessZero ==
  \A i \in DOMAIN ftScore :
    LET acc == ftScore[i].accuracyPct
        n   == ftScore[i].hits + ftScore[i].errors
    IN  (n > 0 /\ 200 * ftScore[i].hits >= n) =>
           /\ (2 * acc - 1) * n <= 200 * ftScore[i].hits
           /\ 200 * ftScore[i].hits < (2 * acc + 1) * n

\* C15 (as claimed): in every SpamperceptionBlocks report the accuracyPct of a
\* modality is hits / total * 100 of that modality rounded to the nearest
\* integer when its total is positive, and 100 when its total is 0.
C15_BlocksAccuracy ==
  task = "blocks" =>
    \A i \in DOMAIN spScore : \A m \in DOMAIN spScore[i].metrics :
      LET acc == spScore[i].metrics[m].accuracyPct
          d   == spScore[i].details.perModality[m]
      IN  /\ d.total = 0 => acc = 100
          /\ d.total > 0 => /\ (2 * acc - 1) * d.total <= 200 * d.hits
                            /\ 200 * d.hits < (2 * acc + 1) * d.total

\* The part of C15 that holds: the value for a modality with responses.
C15_AccuracyOfPositiveTotal ==
  task = "blocks" =>
    \A i \in DOMAIN spScore : \A m \in DOMAIN spScore[i].metrics :
      LET acc == spScore[i].metrics[m].accuracyPct
          d   == spScore[i].details.perModality[m]
      IN  d.total > 0 => /\ (2 * acc - 1) * d.total <= 200 * d.hits
                         /\ 200 * d.hits < (2 * acc + 1) * d.total

\* The fields of a report as the interface describes it.
ReportFields == {"taskId", "sessionId", "durationMs", "metrics", "details"}

\* C16 (as claimed): every object passed to emitScore by any game, on natural
\* completion and on a forced stop alike, has the fields taskId, sessionId,
\* durationMs, metrics and details.
C16_ReportShape ==
  /\ \A i \in DOMAIN score : score[i].fields = ReportFields
  /\ \A i \in DOMAIN spScore : spScore[i].fields = ReportFields
  /\ \A i \in DOMAIN ftScore : ftScore[i].fields = ReportFields

\* The part of C16 that holds: the reports of one go/no-go game all have the
\* same fields, whether stop() was called or the session completed.
C16_SameShapeWithinGame ==
  \A i, j \in DOMAIN score : score[i].fields = score[j].fields

----------------------------------------------------------------------------
(* buildReport of SpamperceptionBlocks on its own: SpecReport              *)
(*                                                                         *)
(* A session of SpamperceptionBlocks in which buildReport() may be called  *)
(* at any moment and its return value is kept.  The reaction times are     *)
(* drawn from a set with 0 (which is not recorded) and two values whose    *)
(* average is not an integer.                                              *)

\* Responses in the session.
MaxLogged == 4
\* Calls of buildReport().
MaxBuilt == 2
ReportRTs == {0, 300, 421}

\* buildReport(): reads statsRef and trialLogRef, writes neither.  Before the
\* first start() statsRef.current is {} and the call throws.
buildReport ==
  /\ task = "blocks"
  /\ statsReady
  /\ Len(built) < MaxBuilt
  /\ built' = Append(built, BuildReport(stats, trialLog))
  /\ UNCHANGED <<gngVars, spanVars, fiveVars, gen, wait>>

reportCellClicked ==
  /\ Len(trialLog) < MaxLogged
  /\ \E cellIdx \in SpanClickCells, rt \in ReportRTs : blocksOnCellClick(cellIdx, rt)

InitReport == GngMounted({"color"}) /\ SpanMounted({"blocks"}) /\ FiveMounted /\ GenMounted /\ WaitMounted

NextReport ==
  \/ blocksStart
  \/ StartTrialTimerFires
  \/ PresentTimerFires
  \/ reportCellClicked
  \/ buildReport

SpecReport == InitReport /\ [][NextReport]_vars

ReadNow(r) ==
  IF task = "blocks"
    THEN [r EXCEPT !.details =
            [perModality |-> [m \in DOMAIN r.details.perModality |->
                [r.details.perModality[m] EXCEPT
                    !.rtList = stats[m].rtList,
                    !.serialPosition = [correct |-> stats[m].spCorrByPos,
                                        total |-> stats[m].spTotalByPos],
                    !.trials = stats[m].trials]],
             trialLog |-> trialLog]]
    ELSE [r EXCEPT !.details = [logs |-> trialLog]]

\* C18 (as claimed): a report that has been passed to emitScore is never
\* changed afterwards: whatever the engine does later, the metrics and the
\* details of an emitted report read as they did when it was emitted.
C18_EmittedReportFrozen ==
  \A i \in DOMAIN spScore : ReadNow(spScore[i]) = spScore[i]

\* The part of C18 that holds: the metrics of an emitted report are numbers
\* copied at building time and never change.
C18_EmittedMetricsFrozen ==
  \A i \in DOMAIN spScore :
    /\ ReadNow(spScore[i]).metrics = spScore[i].metrics
    /\ task = "blocks" =>
         \A m \in DOMAIN stats :
           LET d == spScore[i].details.perModality[m]
               n == ReadNow(spScore[i]).details.perModality[m]
           IN  <<n.spanMax, n.hits, n.total, n.errors>>
                 = <<d.spanMax, d.hits, d.total, d.errors>>

\* C19: the callbacks of the presentation of a sequence s of length n are
\* scheduled at strictly increasing delays (the onset of element i, counted
\* from 0, at i*(ON_MS+GAP_MS), its offset ON_MS later, the switch to
\* "respond" at n*(ON_MS+GAP_MS)); they run in the order on(s[0]), off, ...,
\* on(s[n-1]), off, respond; and when the respond phase of a presentation
\* begins with no other presentation in progress, no cell is lit.  (litIdx
\* is one cell or none: at most one cell is lit at any time.)
C19_PresentationOrder ==
  [][ \A j \in DOMAIN presentTimers :
        LET p == presentTimers[j]
            n == Len(p.arr)
            s == Schedule(p.arr)
            k == p.fired + 1
        IN  /\ Len(s) = 2 * n + 1
            /\ \A i \in 1 .. n :
                 /\ s[2 * i - 1] = [at |-> (i - 1) * (ON_MS + GAP_MS),
                                    lit |-> p.arr[i], respond |-> FALSE]
                 /\ s[2 * i] = [at |-> (i - 1) * (ON_MS + GAP_MS) + ON_MS,
                                lit |-> NoCell, respond |-> FALSE]
            /\ s[2 * n + 1] = [at |-> n * (ON_MS + GAP_MS), lit |-> NoCell,
                               respond |-> TRUE]
            /\ \A i \in 1 .. 2 * n : s[i].at < s[i + 1].at
            /\ PresentTimer(j) =>
                 /\ (k <= 2 * n /\ k % 2 = 1) =>
                       litIdx' = p.arr[(k + 1) \div 2] /\ phase' = phase
                 /\ (k <= 2 * n /\ k % 2 = 0) => litIdx' = NoCell /\ phase' = phase
                 /\ k = 2 * n + 1 =>
                       /\ phase' = "respond"
                       /\ Len(presentTimers) = 1 => litIdx' = NoCell
                 /\ litIdx' \in {NoCell} \cup AllCells
    ]_vars

\* C19 witness: the presentation of a sequence of three cells has just run to
\* its end: the respond phase begins and no cell is lit.
C19_Witness ==
  /\ phase = "respond"
  /\ Len(seq) = 3
  /\ "SEQ_PRESENTED" \in EventTypes(spEmitted)
  /\ presentTimers = <<>>
  /\ litIdx = NoCell

\* The phase changes the state machine of the interface allows.
PhaseEdges ==
  { <<"idle", "between">>, <<"between", "present">>, <<"present", "respond">>,
    <<"respond", "between">>, <<"between", "idle">> }

\* C20 (as claimed): in the span tasks the phase changes only along the edges
\* idle -> between, between -> present, present -> respond, respond ->
\* between and between -> idle.
C20_PhaseEdges ==
  [][ phase' # phase => <<phase, phase'>> \in PhaseEdges ]_vars

\* C21 (as claimed): in the span tasks, when the last trial of the last block
\* concludes, the engine stops running, the phase becomes "idle", the report
\* is built and emitted, and no further trial is scheduled or presented.
C21_LastTrialEndsSession ==
  [][ ( /\ finished' # <<>>
        /\ trialIdx + 1 >= SEQS_PER_BLOCK
        /\ blockIdx + 1 >= Len(BlockList) ) =>
          /\ spRunning' = FALSE
          /\ phase' = "idle"
          /\ Len(spScore') = Len(spScore) + 1
          /\ looseTimers' = looseTimers
          /\ presentTimers' = presentTimers
    ]_vars

\* The part of C21 that holds: the engine stops running, a report is emitted
\* and no trial is scheduled.
C21_LastTrialStopsAndReports ==
  [][ ( /\ finished' # <<>>
        /\ trialIdx + 1 >= SEQS_PER_BLOCK
        /\ blockIdx + 1 >= Len(BlockList) ) =>
          /\ spRunning' = FALSE
          /\ Len(spScore') = Len(spScore) + 1
          /\ looseTimers' = looseTimers
          /\ presentTimers' = presentTimers
    ]_vars


----------------------------------------------------------------------------
(* A second start() during a session.  SpecRestart begins in a session in  *)
(* progress, at one of the two pauses in which only an untracked timer is  *)
(* pending, and allows one more start(); stop() is never called.  Both     *)
(* states are reached under SpecSpan (RestartStatesReached).               *)

\* SpamperceptionBlocks, in the pause after the first block, both of its
\* trials answered correctly: finishTrial has queued the inter-block timer
\* (src/SpamperceptionBlocks.jsx:167-173).
BlocksPauseAfterBlock ==
  /\ task = "blocks"
  /\ spRunning = TRUE
  /\ phase = "between"
  /\ blockIdx = 0
  /\ trialIdx = SEQS_PER_BLOCK - 1
  /\ litIdx = NoCell
  /\ seq = <<33, 34, 35, 36>>
  /\ seqLen = 5
  /\ replayPos = 4
  /\ presentTimers = <<>>
  /\ looseTimers = <<[len |-> START_LEN, mode |-> "digits", trial |-> 1, nextBlock |-> 1]>>
  /\ stats = [m \in {BlockList[i] : i \in DOMAIN BlockList} |->
                IF m = "digits"
                  THEN [spanMax |-> 4, hits |-> 7, total |-> 7, errors |-> 0,
                        rtList |-> <<350, 350, 350, 350, 350, 350, 350>>,
                        spCorrByPos |-> <<2, 2, 2, 1, 0, 0, 0>>,
                        spTotalByPos |-> <<2, 2, 2, 1, 0, 0, 0>>,
                        trials |-> <<[len |-> 3, ok |-> TRUE], [len |-> 4, ok |-> TRUE]>>]
                  ELSE NewStats]
  /\ statsReady = TRUE
  /\ trialLog = [i \in 1..7 |->
                   [mode |-> "digits", trial |-> IF i <= 3 THEN 1 ELSE 2,
                    pos |-> IF i <= 3 THEN i - 1 ELSE i - 4, correct |-> TRUE]]
  /\ built = <<>>
  /\ spEmitted = <<[type |-> "RESP_OK"], [type |-> "BLOCK_END"]>>
  /\ spScore = <<>>
  /\ finished = <<TRUE>>
  /\ responses = <<>>
  /\ stopPhase = "none"
  /\ lenTrace = <<>>
  /\ okTrace = <<>>

\* CentralPeripheralSpanTask, in the pause after the first trial, answered
\* correctly: finishTrial has queued setTimeout(() => startTrial(nextLen), 600)
\* (src/Central–PeripheralSpanTask.jsx:96-98).
CpPauseAfterTrial ==
  /\ task = "cp"
  /\ spRunning = TRUE
  /\ phase = "between"
  /\ blockIdx = 0
  /\ trialIdx = 1
  /\ litIdx = NoCell
  /\ seq = <<33, 34, 35>>
  /\ seqLen = 4
  /\ replayPos = 2
  /\ presentTimers = <<>>
  /\ looseTimers = <<[len |-> 4, mode |-> "central", trial |-> 0, nextBlock |-> -1]>>
  /\ stats = [m \in {BlockList[i] : i \in DOMAIN BlockList} |->
                IF m = "central" THEN [NewStats EXCEPT !.spanMax = 3] ELSE NewStats]
  /\ statsReady = TRUE
  /\ trialLog = [i \in 1..3 |-> [correct |-> TRUE, block |-> "central", pos |-> i - 1]]
  /\ built = <<>>
  /\ spEmitted = <<>>
  /\ spScore = <<>>
  /\ finished = <<TRUE>>
  /\ responses = <<>>
  /\ stopPhase = "none"
  /\ lenTrace = <<>>
  /\ okTrace = <<>>

\* Responses logged since the log was last emptied.
MaxRestartLog == 5

\* Both pauses occur in a first session.
RestartStatesReached ==
  (BlocksPauseAfterBlock \/ CpPauseAfterTrial) /\ spStarts = 1

InitRestart ==
  /\ GngMounted({"color"})
  /\ FiveMounted /\ GenMounted /\ WaitMounted
  /\ BlocksPauseAfterBlock \/ CpPauseAfterTrial
  /\ spStarts = 0

restartBlocksCellClicked == Len(trialLog) < MaxRestartLog /\ blocksCellClicked

restartCpCellClicked == Len(trialLog) < MaxRestartLog /\ cpCellClicked

NextRestart ==
  \/ blocksStart
  \/ cpStart
  \/ restartBlocksCellClicked
  \/ restartCpCellClicked
  \/ StartTrialTimerFires
  \/ PresentTimerFires

SpecRestart == InitRestart /\ [][NextRestart]_vars

\* C22 (as claimed): a span session that is not stopped concludes exactly
\* SEQS_PER_BLOCK trials in each block, the blocks in the order of the block
\* list: a concluded trial inside a block advances trialIdx by one, trialIdx
\* otherwise only returns to 0, blockIdx only returns to 0 at start() or
\* advances by one after the trial with the last index of the block has
\* concluded; the first trial of a block is answered on a sequence of length
\* START_LEN; trialIdx stays in 0..SEQS_PER_BLOCK-1 and blockIdx within the
\* block list.
C22_TrialsPerBlock ==
  [][ (stopPhase = "none" /\ stopPhase' = "none") =>
        /\ trialIdx' \in 0..(SEQS_PER_BLOCK - 1)
        /\ blockIdx' \in 0..(Len(BlockList) - 1)
        /\ (finished' # <<>> /\ trialIdx + 1 < SEQS_PER_BLOCK) =>
              (trialIdx' = trialIdx + 1 /\ blockIdx' = blockIdx)
        /\ (finished' = <<>> /\ trialIdx' # trialIdx) => trialIdx' = 0
        /\ (blockIdx' # blockIdx /\ spStarts' = spStarts) =>
              /\ blockIdx' = blockIdx + 1
              /\ trialIdx = SEQS_PER_BLOCK - 1
              /\ trialIdx' = 0
              /\ finished' # <<>> \/ (task = "blocks" /\ phase = "between")
        /\ (finished' # <<>> /\ trialIdx + 1 >= SEQS_PER_BLOCK) =>
              phase' \in {"between", "idle"}
        /\ (phase' = "respond" /\ trialIdx' = 0) => Len(seq') = START_LEN
    ]_vars

\* The second block is at its first trial, presented with length START_LEN,
\* after a first block whose SEQS_PER_BLOCK trials were all correct.
C22_Witness ==
  /\ task = "blocks"
  /\ stopPhase = "none"
  /\ blockIdx = 1
  /\ trialIdx = 0
  /\ phase = "respond"
  /\ Len(seq) = START_LEN
  /\ Len(stats[BlockList[1]].trials) = SEQS_PER_BLOCK
  /\ \A i \in DOMAIN stats[BlockList[1]].trials : stats[BlockList[1]].trials[i].ok


----------------------------------------------------------------------------
(* The sequence generators: randSeq(len, region) of                        *)
(* CentralPeripheralSpanTask and randUniqueSeq(len) of SpamperceptionBlocks *)
(* (region "all"), one loop iteration per step.  Math.random() is a stream  *)
(* of indices into the list of available cells: it starts at an index of    *)
(* GenStarts and each draw either repeats the previous index or moves on by  *)
(* the stride of the call, a number of GenSteps, which has no common factor  *)
(* with the size of any region.                                              *)

GenRegions == {"all", "central", "peripheral"}
GenSteps == {1, 11}
GenStarts == {0, 5}

\* The elements of a set of numbers in increasing order.
SortedList(S) ==
  [i \in 1 .. Cardinality(S) |-> CHOOSE x \in S : Cardinality({y \in S : y < x}) = i - 1]

\* regionFilter(region): the indices pushed row by row, column by column.
CentralList == SortedList(RegionCells("central"))
PeripheralList == SortedList(RegionCells("peripheral"))
regionFilter(region) == IF region = "central" THEN CentralList ELSE PeripheralList

\* The cells a call draws from: available (cp), 0 .. CELLS - 1 (blocks).
Available(region) ==
  IF region = "all" THEN [i \in 1 .. CELLS |-> i - 1] ELSE regionFilter(region)

\* Requested lengths: those of the engine, and one more than there are cells.
GenLens(region) == (0 .. MAX_LEN) \cup {Len(Available(region)) + 1}

\* if (!used.has(idx)) { seq.push(idx); used.add(idx); } without the test
PushAlways(g, idx) == [g EXCEPT !.seq = Append(g.seq, idx), !.used = g.used \cup {idx}]

\* if (!used.has(idx)) { seq.push(idx); used.add(idx); }
PushUnique(g, idx) ==
  IF idx \in g.used
    THEN g
    ELSE [g EXCEPT !.seq = Append(g.seq, idx), !.used = g.used \cup {idx}]

\* randSeq(len, region) / randUniqueSeq(len) is called.
genCall(region, len, step, first) ==
  /\ gen.status = "idle"
  /\ gen' = [status |-> "running", region |-> region, len |-> len, step |-> step,
             pos |-> first, seq |-> <<>>, used |-> {}]
  /\ UNCHANGED <<gngVars, spanVars, fiveVars, built, wait>>

\* One iteration of while (seq.length < len).
genDraw(repeat) ==
  /\ gen.status = "running"
  /\ Len(gen.seq) < gen.len
  /\ LET available == Available(gen.region)
         k == IF repeat THEN gen.pos ELSE (gen.pos + gen.step) % Len(available)
         idx == available[k + 1]
     IN  gen' = [PushUnique(gen, idx) EXCEPT !.pos = k]
  /\ UNCHANGED <<gngVars, spanVars, fiveVars, built, wait>>

\* The loop condition fails: return seq.
genReturn ==
  /\ gen.status = "running"
  /\ Len(gen.seq) >= gen.len
  /\ gen' = [gen EXCEPT !.status = "returned"]
  /\ UNCHANGED <<gngVars, spanVars, fiveVars, built, wait>>

genCalled ==
  \E region \in GenRegions, step \in GenSteps, first \in GenStarts :
     \E len \in GenLens(region) : genCall(region, len, step, first)

genDraws == \E repeat \in BOOLEAN : genDraw(repeat)

InitGen == GngMounted({"color"}) /\ SpanMounted({"cp"}) /\ FiveMounted /\ GenMounted /\ WaitMounted

NextGen == genCalled \/ genDraws \/ genReturn

SpecGen == InitGen /\ [][NextGen]_vars

\* C23: every sequence a generator returns has exactly the requested length,
\* contains no cell twice and contains only cells of the region it was called
\* for; "central" is the 16 cells with row and column both in 3..6 of the
\* 10 x 10 grid, "peripheral" the other 84; the two regions are disjoint and
\* together cover the 100 cells.
C23_GeneratedSequences ==
  /\ gen.status = "returned" =>
        /\ Len(gen.seq) = gen.len
        /\ \A i, j \in DOMAIN gen.seq : i # j => gen.seq[i] # gen.seq[j]
        /\ \A i \in DOMAIN gen.seq :
              /\ gen.seq[i] \in 0 .. 99
              /\ gen.region = "central" =>
                    /\ gen.seq[i] \div 10 \in 3 .. 6
                    /\ gen.seq[i] % 10 \in 3 .. 6
              /\ gen.region = "peripheral" =>
                    \/ gen.seq[i] \div 10 \notin 3 .. 6
                    \/ gen.seq[i] % 10 \notin 3 .. 6
  /\ RegionCells("central") = {10 * r + c : r \in 3 .. 6, c \in 3 .. 6}
  /\ Cardinality(RegionCells("central")) = 16
  /\ Cardinality(RegionCells("peripheral")) = 84
  /\ RegionCells("central") \cap RegionCells("peripheral") = {}
  /\ RegionCells("central") \cup RegionCells("peripheral") = 0 .. 99

\* A call for MAX_LEN peripheral cells has returned after drawing some cell
\* more than once.
C23_Witness ==
  /\ gen.status = "returned"
  /\ gen.region = "peripheral"
  /\ gen.len = MAX_LEN
  /\ Len(gen.seq) = MAX_LEN
  /\ gen.step = 11


\* C24 (as claimed): a call whose requested length exceeds the number of cells
\* of the region fails with an error at generation time: once a call for more
\* cells than the region has is made, it has ended with the error, at the
\* latest when every cell of the region has been drawn.
C24_InsufficientSpaceFailsFast ==
  ( /\ gen.status # "idle"
    /\ gen.len > Len(Available(gen.region))
    /\ Cardinality(gen.used) = Len(Available(gen.region)) )
  => gen.status = "error"

\* What the generators do instead: such a call never returns, neither a
\* shorter sequence nor anything else; the loop goes on drawing.
C24_CallNeverEnds ==
  (gen.status # "idle" /\ gen.len > Len(Available(gen.region)))
  => (gen.status = "running" /\ Len(gen.seq) < gen.len)


\* C25 (as claimed): each start() of a span task begins a session with empty
\* running statistics: after the call spanMax, hits, total, errors, the
\* reaction-time lists, the serial-position arrays and the trial lists of
\* every modality or region are zero or empty, and so is the response log.
C25_StartEmptiesStatistics ==
  [][ spStarts' # spStarts =>
        /\ \A m \in DOMAIN stats' : stats'[m] = NewStats
        /\ trialLog' = <<>>
    ]_vars


----------------------------------------------------------------------------
(* Progress of the go/no-go games.  SpecLive is a session that is never     *)
(* stopped by stop(): start(), clicks and the two kinds of timer callback.  *)
(* A pending setTimeout callback is run by the event loop after its delay,  *)
(* whatever else happens: weak fairness of the spawn timers and of the      *)
(* display timers.  Clicks and start() are the player's and need not occur. *)

NextLive ==
  \/ start
  \/ CellClicked
  \/ SpawnTimerFires
  \/ ExpiryTimerFires

Fairness == WF_vars(SpawnTimerFires) /\ WF_vars(ExpiryTimerFires)

SpecLive == Init /\ [][NextLive]_vars /\ Fairness

\* C26 (as claimed): in a go/no-go session that is running and has shown no
\* stimulus yet, a first stimulus is eventually presented (totalShown
\* becomes 1 when the spawn queued by start() fires).  nextId < MaxSpawns:
\* the model has a stimulus left to present.
C26_FirstStimulusPresented ==
  (running /\ totalShown = 0 /\ nextId < MaxSpawns) ~> (totalShown >= 1)


\* C27 (as claimed): a go/no-go session that is not stopped terminates: while
\* it is running with fewer than TOTAL_STIMULI stimuli shown, the removal of
\* the displayed stimulus, by a click or by its expiry, is eventually followed
\* by the presentation of a new one.  nextId < MaxSpawns: the model has a
\* stimulus left to present.
C27_RemovalFollowedBySpawn ==
  ( /\ running
    /\ stimuli = <<>>
    /\ totalShown > 0
    /\ totalShown < TOTAL_STIMULI
    /\ nextId < MaxSpawns ) ~> (stimuli # <<>>)


\* C28 (as claimed): in the go/no-go games at most MAX_ACTIVE = 1 stimulus is
\* displayed at any time and totalShown never exceeds TOTAL_STIMULI, in every
\* reachable state.
C28_OneStimulusAtMost ==
  /\ Len(stimuli) <= MAX_ACTIVE
  /\ totalShown <= TOTAL_STIMULI

\* The part of C28 that holds: totalShown never exceeds TOTAL_STIMULI, and
\* ColorReactionGame, whose spawn timer reads the live display, never shows
\* two stimuli.
C28_TotalBoundedColorSingle ==
  /\ totalShown <= TOTAL_STIMULI
  /\ variant = "color" => Len(stimuli) <= MAX_ACTIVE


\* C29: the reaction-window history records every window value: it is
\* <<WINDOW_START>> at session start, gains exactly one element, the new
\* window, per adaptation run (also when the window is held steady), changes
\* at no other step, and its last element is the current reaction window in
\* every reachable state.
C29_WindowHistory ==
  /\ [](/\ adaptHistory # <<>>
        /\ adaptHistory[Len(adaptHistory)] = reactionWindowMs)
  /\ [][ LET starts == \E i \in DOMAIN emitted' : emitted'[i].type = "START"
             adapts == \E i \in DOMAIN emitted' : emitted'[i].type = "ADAPT"
         IN  /\ starts => (adaptHistory' = <<WINDOW_START>> /\ reactionWindowMs' = WINDOW_START)
             /\ adapts => adaptHistory' = Append(adaptHistory, reactionWindowMs')
             /\ (~starts /\ ~adapts) => adaptHistory' = adaptHistory
       ]_vars

\* Two adaptation runs of a session: the first tightened the window, the
\* second held it steady and was recorded all the same.
C29_Witness ==
  /\ Len(adaptHistory) = 3
  /\ adaptHistory[1] = WINDOW_START
  /\ adaptHistory[2] < WINDOW_START
  /\ adaptHistory[3] = adaptHistory[2]
  /\ adaptHistory[3] = reactionWindowMs


\* The greatest number of a set of naturals, 0 for the empty set.
GreatestOf(S) == IF S = {} THEN 0 ELSE CHOOSE x \in S : \A y \in S : y <= x

\* The lengths of the archived trials of modality m that concluded correct.
CorrectLengths(st, m) ==
  {st[m].trials[i].len : i \in {j \in DOMAIN st[m].trials : st[m].trials[j].ok}}

\* One more than the positions answered correctly in modality m according to
\* the response log, which start() empties: no trial of the session concluded
\* correct with a greater length.
LoggedCorrect(log, m) ==
  {log[i].pos + 1 : i \in {j \in DOMAIN log : log[j].mode = m /\ log[j].correct}}

\* C30 (as claimed, SpamperceptionBlocks): the span reported for a modality is
\* the greatest length among the trials of that modality that concluded
\* correct in the session (0 if none did): it is the greatest length of the
\* archived correct trials, no greater than what the session's responses
\* reached, never greater than MAX_LEN, and it never decreases in a session.
C30_SpanIsBestOfSession ==
  [][ task = "blocks" =>
        /\ Len(spScore') > Len(spScore) =>
              LET r == spScore'[Len(spScore')]
              IN  \A m \in DOMAIN stats' :
                    /\ r.metrics[m].spanMax = GreatestOf(CorrectLengths(stats', m))
                    /\ r.metrics[m].spanMax <= GreatestOf(LoggedCorrect(trialLog', m))
                    /\ r.metrics[m].spanMax <= MAX_LEN
        /\ spStarts' = spStarts =>
              \A m \in DOMAIN stats : stats'[m].spanMax >= stats[m].spanMax
    ]_vars


\* C31 (as claimed): in CentralPeripheralSpanTask every sequence presented
\* while block b is the current block consists only of cells of region b, and
\* a correct reproduction is credited to the span of the region its cells
\* were drawn from.
C31_SequenceOfBlockRegion ==
  /\ []( (task = "cp" /\ spRunning /\ phase \in {"present", "respond"}) =>
            \A i \in DOMAIN seq : seq[i] \in RegionCells(BLOCKS[blockIdx + 1]) )
  /\ [][ task = "cp" =>
           \A m \in DOMAIN stats :
              stats'[m].spanMax # stats[m].spanMax =>
                 \A i \in DOMAIN seq : seq[i] \in RegionCells(m) ]_vars


----------------------------------------------------------------------------
(* Part IV: CentralPeripheralWaitGame (SpecWait).  A central stimulus is   *)
(* shown, DELAY_BETWEEN ms later the same stimulus appears in a cell of one *)
(* of four peripheral grids, and the player clicks a cell.                  *)

\* Trials of a session (50 in the source).
TOTAL_TRIALS == 2
\* Pending timers of one kind.
MaxWaitTimers == 2
\* emitScore calls recorded.
MaxWaitScores == 2

\* quadrants[randInt(0, 3)], randInt(0, GRID_SIZE * GRID_SIZE - 1), Math.random()
WaitQuadrants == {"A", "D"}
WaitCells == {0, 24}
WaitColors == {"#4ADE80", "#60A5FA"}
\* Math.round(performance.now() - reactionStartRef.current)
WaitRTs == {300, 500}

\* stop() of CentralPeripheralWaitGame applied to state w: setRunning(false),
\* emitScore({taskId, durationMs, metrics, details}), END.
WaitStopped(w) ==
  LET avgRT == IF Len(w.reactionList) > 0
                 THEN Round(SumSeq(w.reactionList), Len(w.reactionList))
                 ELSE 0
  IN  [w EXCEPT !.running = FALSE,
                !.score = Append(@, [fields |-> {"taskId", "durationMs", "metrics", "details"},
                                     hits |-> w.hits, errors |-> w.errors,
                                     avgReactionMs |-> avgRT,
                                     reactionList |-> w.reactionList]),
                !.emitted = Append(@, [type |-> "END", hits |-> w.hits,
                                       errors |-> w.errors])]

\* nextTrial() of a render whose trialCount was tc, applied to state w.
WaitNextTrial(w, tc, color) ==
  IF tc >= TOTAL_TRIALS
    THEN WaitStopped(w)
    ELSE [w EXCEPT !.centralStim = color,
                   !.emitted = Append(@, [type |-> "CENTRAL_STIM", color |-> color]),
                   !.periphTimers = @ (+) SetToBag({color})]

\* start(): reset(), setRunning(true), START, nextTrial().  start is a
\* useCallback over [reset, emitEvent, sessionId, taskId]: its nextTrial is
\* that of the first render, where trialCount = 0.
waitStart ==
  /\ BagCardinality(wait.periphTimers) < MaxWaitTimers
  /\ \E color \in WaitColors :
       wait' = WaitNextTrial(
                 [wait EXCEPT !.centralStim = "null", !.peripheralStim = NoStim,
                              !.trialCount = 0, !.hits = 0, !.errors = 0,
                              !.reactionList = <<>>, !.running = TRUE,
                              !.score = <<>>,
                              !.emitted = <<[type |-> "START"]>>],
                 0, color)
  /\ UNCHANGED <<gngVars, spanVars, fiveVars, built, gen>>

\* stop()
waitStop ==
  /\ Len(wait.score) < MaxWaitScores
  /\ wait' = WaitStopped([wait EXCEPT !.emitted = <<>>])
  /\ UNCHANGED <<gngVars, spanVars, fiveVars, built, gen>>

\* The setTimeout callback of nextTrial: the peripheral stimulus appears.
waitPeriphTimer(color, quadrant, targetIdx) ==
  /\ BagIn(color, wait.periphTimers)
  /\ wait' = [wait EXCEPT !.periphTimers = @ (-) SetToBag({color}),
                          !.peripheralStim = [quadrant |-> quadrant, idx |-> targetIdx],
                          !.emitted = <<[type |-> "PERIPH_STIM", quadrant |-> quadrant,
                                         idx |-> targetIdx, color |-> color]>>]
  /\ UNCHANGED <<gngVars, spanVars, fiveVars, built, gen>>

\* setTimeout(nextTrial, 600) of handleClick fires: nextTrial of the render in
\* which the click was handled (trialCount tc).
waitNextTrialTimer(tc, color) ==
  /\ BagIn(tc, wait.nextTimers)
  /\ tc < TOTAL_TRIALS => BagCardinality(wait.periphTimers) < MaxWaitTimers
  /\ tc >= TOTAL_TRIALS => Len(wait.score) < MaxWaitScores
  /\ wait' = WaitNextTrial([wait EXCEPT !.nextTimers = @ (-) SetToBag({tc}),
                                        !.emitted = <<>>], tc, color)
  /\ UNCHANGED <<gngVars, spanVars, fiveVars, built, gen>>

\* handleClick(quad, idx, ev), rt ms after the peripheral stimulus appeared.
handleClick(quad, idx, rt) ==
  /\ UNCHANGED <<gngVars, spanVars, fiveVars, built, gen>>
  /\ IF ~wait.running \/ wait.peripheralStim = NoStim
       THEN wait' = [wait EXCEPT !.emitted = <<>>]
       ELSE LET correct == quad = wait.peripheralStim.quadrant
                             /\ idx = wait.peripheralStim.idx
                scored == IF correct
                            THEN [wait EXCEPT !.hits = @ + 1,
                                              !.reactionList = Append(@, rt),
                                              !.emitted = <<[type |-> "HIT", quadrant |-> quad,
                                                             idx |-> idx, reactionMs |-> rt]>>]
                            ELSE [wait EXCEPT !.errors = @ + 1,
                                              !.emitted = <<[type |-> "ERROR", quadrant |-> quad,
                                                             idx |-> idx, reactionMs |-> rt]>>]
                cleared == [scored EXCEPT !.centralStim = "null",
                                          !.peripheralStim = NoStim,
                                          !.trialCount = @ + 1]
            IN  IF wait.trialCount + 1 >= TOTAL_TRIALS
                  THEN /\ Len(wait.score) < MaxWaitScores
                       /\ wait' = WaitStopped(cleared)
                  ELSE /\ BagCardinality(wait.nextTimers) < MaxWaitTimers
                       /\ wait' = [cleared EXCEPT
                                     !.nextTimers = @ (+) SetToBag({wait.trialCount})]

waitPeriphTimerFires ==
  \E color \in BagToSet(wait.periphTimers), quadrant \in WaitQuadrants,
     targetIdx \in WaitCells : waitPeriphTimer(color, quadrant, targetIdx)

waitNextTrialTimerFires ==
  \E tc \in BagToSet(wait.nextTimers), color \in WaitColors :
     waitNextTrialTimer(tc, color)

waitClicked ==
  \E quad \in WaitQuadrants, idx \in WaitCells, rt \in WaitRTs : handleClick(quad, idx, rt)

InitWait ==
  /\ GngMounted({"color"}) /\ SpanMounted({"blocks"}) /\ FiveMounted
  /\ GenMounted /\ WaitMounted

NextWait ==
  \/ waitStart
  \/ waitStop
  \/ waitClicked
  \/ waitPeriphTimerFires
  \/ waitNextTrialTimerFires

SpecWait == InitWait /\ [][NextWait]_vars

\* C32 (as claimed): in CentralPeripheralWaitGame a click on a cell other than
\* the target (counted as an error) does not remove the peripheral stimulus
\* and does not conclude the trial.
C32_StimulusWaitsForHit ==
  [][ wait'.errors > wait.errors =>
        /\ wait'.peripheralStim = wait.peripheralStim
        /\ wait'.trialCount = wait.trialCount
    ]_vars

\* The part of C32 that holds: the stimulus has no display timer; once shown
\* it stays until a click is handled, start() is called, or a later
\* peripheral timer replaces it.
C32_RemovedOnlyByClickOrStart ==
  [][ (wait.peripheralStim # NoStim /\ wait'.peripheralStim = NoStim) =>
        \/ wait'.hits + wait'.errors = wait.hits + wait.errors + 1
        \/ \E i \in DOMAIN wait'.emitted : wait'.emitted[i].type = "START"
    ]_vars

----------------------------------------------------------------------------
(* Part V: FiveTargetReactionGame: SpecFiveGame                            *)
(*                                                                         *)
(* running, stimuli and currentColorIdx are React state: a callback sees   *)
(* the values of the render that created it.  onCellClick and spawnSet are *)
(* re-created on every render (their dependencies include running, stimuli *)
(* and currentColorIdx), so a click is handled by the callback of the      *)
(* current render.  start is re-created only when a prop (emitEvent,       *)
(* sessionId, taskId) changes; the spawnSet it calls is that of the render *)
(* in which start was last re-created (ftGame.startSpawn).                 *)

COLORS == <<"#4ADE80", "#60A5FA", "#F472B6", "#FACC15", "#FB923C", "#A78BFA">>

\* COLORS[currentColorIdx % COLORS.length]
ColorAt(c) == COLORS[(c % Len(COLORS)) + 1]

\* The index sets pickUniqueIndices() returns in the model (TARGETS_PER_SET
\* distinct cells of the 10 x 10 grid).
FiveIndexSets == { {0, 1, 2, 3, 4}, {1, 2, 3, 4, 5} }
\* The cells the player clicks in the model; cell 99 is never a target.
FiveCells == {0, 1, 2, 3, 4, 5, 99}
\* Calls of start().
MaxFiveStarts == 2
\* Clicks on empty cells in a session of SpecFiveGame.
MaxGameErrors == 1

\* spawnSet() of closure sp, drawing the index set indices, applied to game
\* state g after the first two checks.
SetSpawned(g, sp, indices) ==
  [g EXCEPT !.stimuli = [cells |-> indices, clicked |-> {},
                         color |-> ColorAt(sp.colorIdx)],
            !.totalShown = @ + TARGETS_PER_SET,
            !.setStarts = Append(@, ColorAt(sp.colorIdx))]

\* start(): clearAll(), setRunning(true), START, spawnSet().  The Start
\* button is rendered while running is false.
fiveStart ==
  /\ ~ftRunning
  /\ ftGame.starts < MaxFiveStarts
  /\ ftRunning' = TRUE
  /\ ftHits' = 0
  /\ ftErrors' = 0
  /\ LET cleared == [ftGame EXCEPT !.stimuli = NoSet, !.totalShown = 0,
                                   !.clickedCount = 0, !.currentSet = 0,
                                   !.currentColorIdx = 0, !.setStarts = <<>>,
                                   !.starts = @ + 1]
     IN  IF ~ftGame.startSpawn.running
           THEN ftGame' = cleared
           ELSE \E indices \in FiveIndexSets :
                  ftGame' = SetSpawned(cleared, ftGame.startSpawn, indices)
  /\ UNCHANGED ftScore
  /\ UNCHANGED <<gngVars, spanVars, built, gen, wait>>

\* The parent renders the component with a new emitEvent, sessionId or
\* taskId: start is re-created and calls the spawnSet of this render.
fivePropsChange ==
  /\ ftGame.startSpawn # SpawnSetOf(ftRunning, ftGame.currentColorIdx)
  /\ ftGame' = [ftGame EXCEPT !.startSpawn = SpawnSetOf(ftRunning, ftGame.currentColorIdx)]
  /\ UNCHANGED <<ftRunning, ftHits, ftErrors, ftScore>>
  /\ UNCHANGED <<gngVars, spanVars, built, gen, wait>>

\* onCellClick(cellIdx, ev) of the current render
fiveCellClick(cellIdx) ==
  /\ UNCHANGED <<gngVars, spanVars, built, gen, wait>>
  /\ UNCHANGED <<ftRunning, ftScore>>
  /\ IF ~ftRunning
       THEN UNCHANGED <<ftHits, ftErrors, ftGame>>
       ELSE IF cellIdx \notin ftGame.stimuli.cells
         THEN /\ ftErrors < MaxGameErrors
              /\ ftErrors' = ftErrors + 1
              /\ UNCHANGED <<ftHits, ftGame>>
         ELSE IF cellIdx \in ftGame.stimuli.clicked
           THEN UNCHANGED <<ftHits, ftErrors, ftGame>>
           ELSE /\ ftHits' = ftHits + 1
                /\ UNCHANGED ftErrors
                /\ LET hit == [ftGame EXCEPT !.clickedCount = @ + 1,
                                             !.stimuli.clicked = @ \cup {cellIdx}]
                   IN  ftGame' =
                         IF hit.clickedCount % TARGETS_PER_SET = 0
                           THEN [hit EXCEPT
                                   !.currentSet = @ + 1,
                                   !.currentColorIdx = @ + 1,
                                   !.timers = @ (+) SetToBag({SpawnSetOf(ftRunning,
                                                       ftGame.currentColorIdx)})]
                           ELSE hit

\* setTimeout(spawnSet, 300) of onCellClick fires: the spawnSet of the render
\* in which the click was handled.
fiveSpawnTimer(sp) ==
  /\ BagIn(sp, ftGame.timers)
  /\ UNCHANGED <<gngVars, spanVars, built, gen, wait>>
  /\ UNCHANGED <<ftHits, ftErrors>>
  /\ LET g == [ftGame EXCEPT !.timers = @ (-) SetToBag({sp})]
     IN  IF ~sp.running
           THEN ftGame' = g /\ UNCHANGED <<ftRunning, ftScore>>
           ELSE IF g.currentSet >= TOTAL_SETS
             THEN /\ Len(ftScore) < MaxFiveScores
                  /\ ftRunning' = FALSE
                  /\ ftScore' = Append(ftScore, FiveReport(ftHits, ftErrors))
                  /\ ftGame' = g
             ELSE /\ \E indices \in FiveIndexSets :
                       ftGame' = SetSpawned(g, sp, indices)
                  /\ UNCHANGED <<ftRunning, ftScore>>

fiveCellClicked == \E cellIdx \in FiveCells : fiveCellClick(cellIdx)

fiveSpawnTimerFires == \E sp \in BagToSet(ftGame.timers) : fiveSpawnTimer(sp)

InitFiveGame ==
  /\ GngMounted({"color"})
  /\ SpanMounted({"blocks"})
  /\ FiveMounted /\ GenMounted /\ WaitMounted

NextFiveGame ==
  \/ fiveStart
  \/ fivePropsChange
  \/ fiveStop
  \/ fiveCellClicked
  \/ fiveSpawnTimerFires

SpecFiveGame == InitFiveGame /\ [][NextFiveGame]_vars

\* C33 (as claimed): after start() a first set of 5 distinct targets of one
\* colour is displayed, SET_START has been emitted and totalShown is 5, with
\* no further user action: every start() step ends in such a state.
C33_StartShowsFirstSet ==
  [][ ftGame'.starts = ftGame.starts + 1 =>
        /\ Cardinality(ftGame'.stimuli.cells) = TARGETS_PER_SET
        /\ ftGame'.stimuli.clicked = {}
        /\ ftGame'.stimuli.color \in { COLORS[i] : i \in DOMAIN COLORS }
        /\ ftGame'.setStarts = <<ftGame'.stimuli.color>>
        /\ ftGame'.totalShown = TARGETS_PER_SET ]_vars

\* What the code does instead: a start() whose spawnSet was created in a
\* render with running = false (every first start, and every start while the
\* props do not change during a session) displays nothing and emits no
\* SET_START, and nothing is pending that would display a set later.
C33_StaleStartShowsNothing ==
  [][ (ftGame'.starts = ftGame.starts + 1 /\ ~ftGame.startSpawn.running) =>
        /\ ftGame'.stimuli = NoSet
        /\ ftGame'.setStarts = <<>>
        /\ ftGame'.totalShown = 0
        /\ ftGame'.timers = ftGame.timers ]_vars

\* C34 (as claimed): each new set is shown in a new colour: of two
\* consecutive sets of a session (two consecutive SET_START events after the
\* same START) the later one has a colour other than that of the earlier one.
C34_NewSetNewColour ==
  \A i \in 1 .. Len(ftGame.setStarts) - 1 :
     ftGame.setStarts[i + 1] # ftGame.setStarts[i]

\* What the code does: the set that follows a completed one takes the colour
\* index of the render in which the fifth click was handled, which is the
\* index before setCurrentColorIdx((prev) => prev + 1) took effect.
C34_TimerSetKeepsClosureColour ==
  [][ \A sp \in BagToSet(ftGame.timers) :
        (ftGame'.timers = ftGame.timers (-) SetToBag({sp})
           /\ Len(ftGame'.setStarts) = Len(ftGame.setStarts) + 1) =>
          /\ ftGame'.stimuli.color = ColorAt(sp.colorIdx)
          /\ sp.colorIdx < ftGame.currentColorIdx ]_vars

\* C35 (as claimed): in every reachable state hits = clickedCount =
\* 5 * currentSet + (clicked targets of the displayed set) and currentSet <=
\* 10, and a report made by the natural end of a session (spawnSet finding
\* currentSet >= TOTAL_SETS) has exactly 50 hits.
C35_HitsMatchSets ==
  /\ ftHits = ftGame.clickedCount
  /\ ftGame.clickedCount =
       TARGETS_PER_SET * ftGame.currentSet + Cardinality(ftGame.stimuli.clicked)
  /\ ftGame.currentSet <= TOTAL_SETS

\* The parts of C35 that hold: hits = clickedCount, currentSet <= TOTAL_SETS,
\* a target is never counted twice (a hit adds a cell that was not yet
\* clicked), and the report of a natural end (made by a spawnSet timer) has
\* TOTAL_SETS * TARGETS_PER_SET hits.
C35_EachTargetCountedOnce ==
  /\ [](ftHits = ftGame.clickedCount /\ ftGame.currentSet <= TOTAL_SETS)
  /\ [][ (Len(ftScore') = Len(ftScore) + 1 /\ ftGame'.timers # ftGame.timers) =>
           ftScore'[Len(ftScore')].hits = TOTAL_SETS * TARGETS_PER_SET ]_vars
  /\ [][ ftHits' = ftHits + 1 =>
           \E c \in ftGame.stimuli.cells \ ftGame.stimuli.clicked :
              ftGame'.stimuli.clicked = ftGame.stimuli.clicked \cup {c} ]_vars

\* C36 (as claimed): in CentralPeripheralSpanTask, whenever a trial enters the
\* respond phase the replay position is 0 (the first response of every trial
\* is compared with the first element of its sequence), and in the respond
\* phase the replay position is less than the length of the sequence.
C36_ReplayStartsAtZero ==
  /\ [][ (task = "cp" /\ phase # "respond" /\ phase' = "respond") =>
           replayPos' = 0 ]_vars
  /\ []( (task = "cp" /\ phase = "respond") => replayPos < Len(seq) )

\* What the code does: no statement of CentralPeripheralSpanTask sets the
\* replay position back; it changes only by the increment of a correct,
\* non-final response, so it never decreases, not even across start().
C36_ReplayPosNeverReset ==
  [][ task = "cp" => replayPos' >= replayPos ]_vars

\* C37 (as claimed): in SpamperceptionBlocks at most one sequence presentation
\* is in progress at a time, whatever the interleaving of start(), clicks and
\* timers: the timers of two presentations are never pending together; and a
\* timer of an earlier session changes nothing in a later one: after a later
\* start() the block changes only out of the pause that follows a completed
\* block of that session, and a start-of-trial timer fires only in that pause
\* or as the lead-in of start() (phase "present", no sequence yet, block kept).
C37_OnePresentationAtATime ==
  /\ []( task = "blocks" => Len(presentTimers) <= 1 )
  /\ [][ (task = "blocks" /\ spStarts = 1 /\ spStarts' = 1) =>
           /\ blockIdx' # blockIdx => phase = "between"
           /\ Len(looseTimers') < Len(looseTimers) =>
                \/ phase = "between"
                \/ phase = "present" /\ seq = <<>> /\ blockIdx' = blockIdx ]_vars

\* What holds: in a session that is not restarted (SpecSpan) the timers of at
\* most one presentation of SpamperceptionBlocks are pending.
C37_OnePresentationPerStart ==
  task = "blocks" => Len(presentTimers) <= 1

\* The responses of the log that belong to trial k of modality m.
TrialResponses(m, k, ok) ==
  { i \in DOMAIN trialLog :
      trialLog[i].mode = m /\ trialLog[i].trial = k /\ trialLog[i].correct = ok }

\* C38 (as claimed): in SpamperceptionBlocks, within a session and for every
\* modality, hits + errors = total; errors is the number of archived trials
\* with ok = false, and a trial has at most one wrong response; at most
\* SEQS_PER_BLOCK trials are archived; and an archived trial with ok = true
\* has as many correct responses (hits) as its sequence is long.
C38_CountersOfAModality ==
  (task = "blocks" /\ statsReady) =>
    \A m \in DOMAIN stats :
      LET st == stats[m]
      IN  /\ st.hits + st.errors = st.total
          /\ st.errors = Cardinality({k \in DOMAIN st.trials : ~st.trials[k].ok})
          /\ Len(st.trials) <= SEQS_PER_BLOCK
          /\ \A k \in DOMAIN st.trials :
                /\ Cardinality(TrialResponses(m, k, FALSE)) <= 1
                /\ st.trials[k].ok =>
                     Cardinality(TrialResponses(m, k, TRUE)) = st.trials[k].len

\* C39: the serial-position counters of SpamperceptionBlocks are consistent in
\* every reachable state: for every modality and position p in 0..6,
\* correct[p] <= total[p]; for p < 6, total[p+1] <= correct[p]; the sum of
\* total[] is the modality's total and the sum of correct[] its hits; and no
\* index outside 0..6 is written (both arrays keep their MAX_LEN numbers).
C39_SerialPositionCounters ==
  (task = "blocks" /\ statsReady) =>
    \A m \in DOMAIN stats :
      LET corr == stats[m].spCorrByPos
          tot  == stats[m].spTotalByPos
      IN  /\ Len(corr) = MAX_LEN
          /\ Len(tot) = MAX_LEN
          /\ \A p \in 1 .. MAX_LEN : 0 <= corr[p] /\ corr[p] <= tot[p]
          /\ \A p \in 1 .. (MAX_LEN - 1) : tot[p + 1] <= corr[p]
          /\ SumSeq(tot) = stats[m].total
          /\ SumSeq(corr) = stats[m].hits

====
